---------------------------- MODULE Spec2Model ----------------------------
(***************************************************************************)
(* Model of the summarize-and-translate handler core                      *)
(* (src/api/summarize.js and its other versions under src/unnamed).        *)
(*                                                                         *)
(* A JavaScript string is a sequence of one-character strings.  A regular  *)
(* expression of the source is an operator giving, for a string and a      *)
(* start index, the length of the match at that index (0: no match; no     *)
(* expression of the source matches the empty string).                     *)
(***************************************************************************)
EXTENDS Integers, Sequences, FiniteSets, TLC

VARIABLES
    text,       \* the input string of the pure function under check
    param,      \* its numeric parameter (maxSize, maxChars, targetSentences)
    op,         \* the function that has been applied ("none" before)
    out,        \* its result
    client,     \* the inference client running: "callHF", "callHuggingFace"
    maxRetries, \* its parameter maxRetries (retries in callHuggingFace)
    attempt,    \* its loop counter (i in callHF)
    calls,      \* HTTP calls it has issued
    pc,         \* where it stands
    answers,    \* what the provider answered, call by call
    result,     \* what it returned, or the error it threw
    sleeps,     \* the delays it has waited, in ms
    handler,    \* the request handler running (one of the versions)
    request,    \* the request: its body, url and language, by kind
    stage,      \* where the handler stands
    article,    \* the extracted article text, by length class
    chunkCount, \* the number of chunks of the article
    chunkIdx,   \* the loop index over chunks, then over sub-chunks
    chunkResults,       \* what the client gave for each chunk so far
    summaries,  \* the partial summaries pushed so far
    summary,    \* the summary carried forward
    subChunks,  \* the number of sub-chunks of the summary to translate
    translations,       \* the translated segments pushed so far
    pageFetches,        \* calls of the page fetcher
    inferenceCalls,     \* calls of the inference provider or its client
    translationCalls,   \* calls of the generic translation providers
    pageResult, \* what the page fetch came to
    deadlinePassed,     \* the overall deadline of the request is over
    condenseResult,     \* what the condensing call gave, if it was made
    response,   \* the responses sent
    invocations,        \* two requests in flight: body and provider answers
    awaiting,   \* the await each of the two invocations stands at
    frames,     \* the local variables of each of the two invocations
    replies,    \* what each of the two invocations answered
    interleaved,        \* an invocation ran while the other was in flight
    wrapper,    \* the fetchWithTimeout under check
    timeoutMs,  \* its timeout, in ticks of the clock
    clock,      \* the ticks since the call was made
    netCall,    \* the network call: "connecting", "readingBody", ...
    timer,      \* the timer of setTimeout: "armed", "cleared", "fired"
    caller      \* what the code that awaits the call stands at

pureVars == <<text, param, op, out>>

handlerVars ==
    <<handler, request, stage, article, chunkCount, chunkIdx, chunkResults,
      summaries, summary, subChunks, translations, pageFetches, inferenceCalls,
      translationCalls, pageResult, deadlinePassed, condenseResult,
      response>>

clientVars ==
    <<client, maxRetries, attempt, calls, pc, answers, result, sleeps>>

pairVars == <<invocations, awaiting, frames, replies, interleaved>>

timeoutVars == <<wrapper, timeoutMs, clock, netCall, timer, caller>>

\* The variables of the models that stand beside the others.
asideVars == <<pairVars, timeoutVars>>

vars == <<pureVars, clientVars, handlerVars, asideVars>>

\* No pair of requests is in flight while one request is followed.
PairIdle ==
    /\ invocations = <<>>
    /\ awaiting = <<>>
    /\ frames = <<>>
    /\ replies = <<>>
    /\ interleaved = FALSE

\* No network call is under check.
TimeoutIdle ==
    /\ wrapper = "none"
    /\ timeoutMs = 0
    /\ clock = 0
    /\ netCall = "none"
    /\ timer = "none"
    /\ caller = "none"

AsideIdle == PairIdle /\ TimeoutIdle

\* No request is handled while a function or the client is checked alone.
HandlerIdle ==
    /\ handler = "none"
    /\ request = [body |-> "none", url |-> "none", language |-> "none"]
    /\ stage = "idle"
    /\ article = "none"
    /\ chunkCount = 0
    /\ chunkIdx = 0
    /\ chunkResults = <<>>
    /\ summaries = <<>>
    /\ summary = [from |-> "none", size |-> "empty"]
    /\ subChunks = 0
    /\ translations = <<>>
    /\ pageFetches = 0
    /\ pageResult = "none"
    /\ deadlinePassed = FALSE
    /\ condenseResult = "notCalled"
    /\ inferenceCalls = 0
    /\ translationCalls = 0
    /\ response = <<>>

\* No inference client runs while a pure function is checked.
ClientIdle ==
    /\ client = "none"
    /\ maxRetries = 0
    /\ attempt = 0
    /\ calls = 0
    /\ pc = "idle"
    /\ answers = <<>>
    /\ result = "none"
    /\ sleeps = <<>>

---------------------------------------------------------------------------
(* Bounds of the checked input sets.                                       *)

MaxCleanLen == 5

MaxChunkLen == 7

MaxChunkSize == 3

MaxPieces == 4

MaxTarget == 3

MaxRetries == 3

MaxChunks == 4

MaxSubChunks == 2

---------------------------------------------------------------------------
(* Characters and character classes of the regular expressions.            *)

UpperChars == <<"A","B","C","D","E","F","G","H","I","J","K","L","M",
                "N","O","P","Q","R","S","T","U","V","W","X","Y","Z">>

LowerChars == <<"a","b","c","d","e","f","g","h","i","j","k","l","m",
                "n","o","p","q","r","s","t","u","v","w","x","y","z">>

Range(f) == {f[x] : x \in DOMAIN f}

\* \s
IsSpace(c) == c \in {" ", "\n", "\t", "\r", "\f"}

\* \d
IsDigit(c) == c \in {"0","1","2","3","4","5","6","7","8","9"}

\* [a-zA-Z]
IsAlpha(c) == c \in Range(UpperChars) \cup Range(LowerChars)

\* [.!?]
IsTerminator(c) == c \in {".", "!", "?"}

\* [.,!?;:]
IsPunct(c) == c \in {".", ",", "!", "?", ";", ":"}

\* [,\s\-<en dash><em dash>] together with \d: what may stand inside a
\* numeric citation.  A character outside ASCII is written as its name.
IsNumCiteChar(c) ==
    IsDigit(c) \/ IsSpace(c) \/ c \in {",", "-", "ndash", "mdash"}

NotCloseBracket(c) == c # "]"
NotCloseParen(c) == c # ")"
NotNewline(c) == c # "\n"

\* String.prototype.toLowerCase, one character
ToLower(c) ==
    IF \E k \in 1..26 : UpperChars[k] = c
    THEN LowerChars[CHOOSE k \in 1..26 : UpperChars[k] = c]
    ELSE IF c = "Auml" THEN "auml" ELSE IF c = "Ouml" THEN "ouml"
    ELSE IF c = "Uuml" THEN "uuml"
    ELSE c

toLowerCase(s) == [k \in 1..Len(s) |-> ToLower(s[k])]

---------------------------------------------------------------------------
(* Regular-expression machinery.                                           *)

\* The first index j >= i with j > Len(s) or ~P(s[j]): the end of a greedy P*.
SkipWhile(s, i, P(_)) ==
    LET RECURSIVE Skip(_)
        Skip(j) == IF j > Len(s) \/ ~P(s[j]) THEN j ELSE Skip(j + 1)
    IN Skip(i)

\* Whether the literal lit stands at index i of s (flag i: case-insensitive).
LitAtCI(s, i, lit) ==
    /\ i + Len(lit) - 1 <= Len(s)
    /\ \A k \in 1..Len(lit) : ToLower(s[i + k - 1]) = ToLower(lit[k])

\* String.prototype.replace(/re/g, ...): leftmost matches, left to right,
\* never overlapping; M gives the length of the match at an index, R the text
\* that replaces that match.
ReplaceAll(s, M(_, _), R(_, _, _)) ==
    LET RECURSIVE Splice(_)
        Splice(i) ==
            IF i > Len(s) THEN <<>>
            ELSE LET n == M(s, i) IN
                 IF n > 0 THEN R(s, i, n) \o Splice(i + n)
                 ELSE <<s[i]>> \o Splice(i + 1)
    IN Splice(1)

Delete(s, i, n) == <<>>
OneSpace(s, i, n) == <<" ">>
LastChar(s, i, n) == <<s[i + n - 1]>>

\* String.prototype.trim
trim(s) ==
    LET idx == {k \in 1..Len(s) : ~IsSpace(s[k])} IN
    IF idx = {} THEN <<>>
    ELSE SubSeq(s, CHOOSE k \in idx : \A m \in idx : k <= m,
                   CHOOSE k \in idx : \A m \in idx : k >= m)

---------------------------------------------------------------------------
(* cleanText: the patterns, in the order the source applies them.          *)

\* /\[\s*\d+(?:[,\s\-<ndash><mdash>]*\d+)*\s*\]/ : between the brackets only digits,
\* separators and whitespace; a digit first and last once whitespace is
\* stripped.
MatchNumCite(s, i) ==
    IF s[i] # "[" THEN 0
    ELSE LET a == SkipWhile(s, i + 1, IsSpace)
             e == SkipWhile(s, i + 1, IsNumCiteChar)
         IN IF /\ e <= Len(s) /\ s[e] = "]"
               /\ a < e /\ IsDigit(s[a])
               /\ \E d \in a..(e - 1) :
                     /\ IsDigit(s[d])
                     /\ \A k \in (d + 1)..(e - 1) : IsSpace(s[k])
            THEN e - i + 1 ELSE 0

\* /\[\s*[a-zA-Z]+\s*\]/
MatchAlphaCite(s, i) ==
    IF s[i] # "[" THEN 0
    ELSE LET a == SkipWhile(s, i + 1, IsSpace)
             b == SkipWhile(s, a, IsAlpha)
             e == SkipWhile(s, b, IsSpace)
         IN IF b > a /\ e <= Len(s) /\ s[e] = "]" THEN e - i + 1 ELSE 0

\* /\[\s*cite[^\]]*\]/i
MatchCite(s, i) ==
    IF s[i] # "[" THEN 0
    ELSE LET a == SkipWhile(s, i + 1, IsSpace)
             e == SkipWhile(s, a + 4, NotCloseBracket)
         IN IF LitAtCI(s, a, <<"c","i","t","e">>) /\ e <= Len(s)
            THEN e - i + 1 ELSE 0

\* /\(siehe[^)]*\)/i
MatchSiehe(s, i) ==
    LET e == SkipWhile(s, i + 6, NotCloseParen) IN
    IF LitAtCI(s, i, <<"(","s","i","e","h","e">>) /\ e <= Len(s)
    THEN e - i + 1 ELSE 0

\* /\(vgl\.[^)]*\)/i
MatchVgl(s, i) ==
    LET e == SkipWhile(s, i + 5, NotCloseParen) IN
    IF LitAtCI(s, i, <<"(","v","g","l",".">>) /\ e <= Len(s)
    THEN e - i + 1 ELSE 0

\* /\[Bearbeiten[^\]]*\]/i
MatchBearbeiten(s, i) ==
    LET e == SkipWhile(s, i + 11, NotCloseBracket) IN
    IF LitAtCI(s, i, <<"[","B","e","a","r","b","e","i","t","e","n">>)
       /\ e <= Len(s)
    THEN e - i + 1 ELSE 0

\* /\[Bearbeiten\s*\|\s*Quelltext bearbeiten\]/i
MatchBearbeitenQuelltext(s, i) ==
    LET a == SkipWhile(s, i + 11, IsSpace)
        b == SkipWhile(s, a + 1, IsSpace)
        q == <<"Q","u","e","l","l","t","e","x","t"," ",
               "b","e","a","r","b","e","i","t","e","n","]">>
    IN IF /\ LitAtCI(s, i, <<"[","B","e","a","r","b","e","i","t","e","n">>)
          /\ a <= Len(s) /\ s[a] = "|"
          /\ LitAtCI(s, b, q)
       THEN b + Len(q) - i ELSE 0

\* /\[edit\]/i
MatchEdit(s, i) ==
    IF LitAtCI(s, i, <<"[","e","d","i","t","]">>) THEN 6 ELSE 0

\* /\^/
MatchCaret(s, i) == IF s[i] = "^" THEN 1 ELSE 0

\* /Main article:\s*[^\n]*/i
MatchMainArticle(s, i) ==
    LET lit == <<"M","a","i","n"," ","a","r","t","i","c","l","e",":">>
        a == SkipWhile(s, i + Len(lit), IsSpace)
        e == SkipWhile(s, a, NotNewline)
    IN IF LitAtCI(s, i, lit) THEN e - i ELSE 0

\* /\s+/
MatchSpaces(s, i) == SkipWhile(s, i, IsSpace) - i

\* /\s+([.,!?;:])/
MatchSpaceBeforePunct(s, i) ==
    LET e == SkipWhile(s, i, IsSpace) IN
    IF e > i /\ e <= Len(s) /\ IsPunct(s[e]) THEN e - i + 1 ELSE 0

\* /\n{3,}/
MatchNewlines3(s, i) ==
    LET e == SkipWhile(s, i, LAMBDA c : c = "\n") IN
    IF e - i >= 3 THEN e - i ELSE 0

TwoNewlines(s, i, n) == <<"\n", "\n">>

\* The removals every version of cleanText starts with.
StripCitations(s) ==
    ReplaceAll(ReplaceAll(ReplaceAll(s, MatchNumCite, Delete),
                          MatchAlphaCite, Delete),
               MatchCite, Delete)

\* The steps every version of cleanText ends with.
StripTail(s) ==
    ReplaceAll(ReplaceAll(s, MatchEdit, Delete), MatchCaret, Delete)

CollapseSpace(s) == ReplaceAll(s, MatchSpaces, OneSpace)
NoSpaceBeforePunct(s) == ReplaceAll(s, MatchSpaceBeforePunct, LastChar)

\* src/api/summarize.js:26
cleanText(s) ==
    IF s = <<>> THEN <<>>
    ELSE trim(NoSpaceBeforePunct(CollapseSpace(
           ReplaceAll(
             StripTail(
               ReplaceAll(
                 ReplaceAll(StripCitations(s), MatchSiehe, Delete),
                 MatchBearbeiten, Delete)),
             MatchMainArticle, Delete))))

\* src/unnamed/part_002:25 (and src/api/summarize.js:357): adds (vgl. ...)
cleanText2(s) ==
    IF s = <<>> THEN <<>>
    ELSE trim(NoSpaceBeforePunct(CollapseSpace(
           ReplaceAll(
             StripTail(
               ReplaceAll(
                 ReplaceAll(
                   ReplaceAll(StripCitations(s), MatchSiehe, Delete),
                   MatchVgl, Delete),
                 MatchBearbeiten, Delete)),
             MatchMainArticle, Delete))))

\* src/unnamed/part_002:821
cleanText3(s) ==
    IF s = <<>> THEN <<>>
    ELSE trim(NoSpaceBeforePunct(
           ReplaceAll(
             CollapseSpace(
               ReplaceAll(
                 StripTail(
                   ReplaceAll(
                     ReplaceAll(
                       ReplaceAll(StripCitations(s), MatchSiehe, Delete),
                       MatchVgl, Delete),
                     MatchBearbeitenQuelltext, Delete)),
                 MatchMainArticle, Delete)),
             MatchNewlines3, TwoNewlines)))

---------------------------------------------------------------------------
(* Input sets.                                                             *)

StringsOver(alphabet, n) == UNION {[1..k -> alphabet] : k \in 0..n}

\* The strings of a sequence, one after the other.
RECURSIVE Concat(_)
Concat(ss) == IF ss = <<>> THEN <<>> ELSE Head(ss) \o Concat(Tail(ss))

CleanAlphabet == {"[", "]", "1", "a", " ", "^", "."}

---------------------------------------------------------------------------
(* The text normalizer applied to one input.                               *)

InitClean ==
    /\ text \in StringsOver(CleanAlphabet, MaxCleanLen)
    /\ param = 0
    /\ op = "none"
    /\ out = <<>>
    /\ ClientIdle
    /\ HandlerIdle
    /\ AsideIdle

CleanText ==
    /\ op = "none"
    /\ out' = cleanText(text)
    /\ op' = "cleanText"
    /\ UNCHANGED <<text, param, clientVars, handlerVars, asideVars>>

CleanText2 ==
    /\ op = "none"
    /\ out' = cleanText2(text)
    /\ op' = "cleanText2"
    /\ UNCHANGED <<text, param, clientVars, handlerVars, asideVars>>

CleanText3 ==
    /\ op = "none"
    /\ out' = cleanText3(text)
    /\ op' = "cleanText3"
    /\ UNCHANGED <<text, param, clientVars, handlerVars, asideVars>>

NextClean == CleanText \/ CleanText2 \/ CleanText3

SpecClean == InitClean /\ [][NextClean]_vars

\* The version of cleanText that produced out.
CleanAgain(s) ==
    CASE op = "cleanText" -> cleanText(s)
      [] op = "cleanText2" -> cleanText2(s)
      [] op = "cleanText3" -> cleanText3(s)
      [] OTHER -> s

---------------------------------------------------------------------------
(* Claims about the text normalizer.                                       *)

CleanOps == {"cleanText", "cleanText2", "cleanText3"}

\* C1: cleanText is idempotent: cleaning the output of cleanText again
\* gives that output back, for every input string.
C1_CleanIdempotent ==
    op \in CleanOps => CleanAgain(out) = out

\* A bracketed citation marker: [digits] or [letters] ([edit] is one).
HasCitationMarker(s) ==
    \E i, j \in 1..Len(s) :
        /\ i + 1 < j /\ s[i] = "[" /\ s[j] = "]"
        /\ \/ \A k \in (i + 1)..(j - 1) : IsDigit(s[k])
           \/ \A k \in (i + 1)..(j - 1) : IsAlpha(s[k])

HasWhitespaceRun(s) ==
    \E i \in 1..(Len(s) - 1) : IsSpace(s[i]) /\ IsSpace(s[i + 1])

HasOuterWhitespace(s) ==
    s # <<>> /\ (IsSpace(s[1]) \/ IsSpace(s[Len(s)]))

\* C2: the output of cleanText holds no bracketed citation marker, no run
\* of two or more whitespace characters and no leading or trailing
\* whitespace.
C2_CleanOutputNormalized ==
    op \in CleanOps =>
        /\ ~HasCitationMarker(out)
        /\ ~HasWhitespaceRun(out)
        /\ ~HasOuterWhitespace(out)

\* The whitespace half of C2 alone.
CleanOutputWhitespaceNormalized ==
    op \in CleanOps => ~HasWhitespaceRun(out) /\ ~HasOuterWhitespace(out)

---------------------------------------------------------------------------
(* Sentence segmentation and the chunkers.                                 *)

NotTerminator(c) == ~IsTerminator(c)
IsNewline(c) == c = "\n"

\* /[^.!?]+[.!?]+/
MatchSentence(s, i) ==
    LET j == SkipWhile(s, i, NotTerminator)
        k == SkipWhile(s, j, IsTerminator)
    IN IF j > i /\ k > j THEN k - i ELSE 0

\* /[^\.!\?]+[\.!\?]+(\s|$)/
MatchSentenceSpace(s, i) ==
    LET j == SkipWhile(s, i, NotTerminator)
        k == SkipWhile(s, j, IsTerminator)
    IN IF j > i /\ k > j
       THEN IF k > Len(s) THEN k - i
            ELSE IF IsSpace(s[k]) THEN k - i + 1
            ELSE 0
       ELSE 0

\* /\n\n+/
MatchParagraphBreak(s, i) ==
    LET e == SkipWhile(s, i, IsNewline) IN
    IF e - i >= 2 THEN e - i ELSE 0

\* String.prototype.match(/re/g): the matches in order (<<>> stands for null).
MatchAll(s, M(_, _)) ==
    LET RECURSIVE Collect(_)
        Collect(i) ==
            IF i > Len(s) THEN <<>>
            ELSE LET n == M(s, i) IN
                 IF n > 0 THEN <<SubSeq(s, i, i + n - 1)>> \o Collect(i + n)
                 ELSE Collect(i + 1)
    IN Collect(1)

\* String.prototype.split(/re/)
Split(s, M(_, _)) ==
    LET RECURSIVE SplitAt(_, _)
        SplitAt(i, from) ==
            IF i > Len(s) THEN <<SubSeq(s, from, Len(s))>>
            ELSE LET n == M(s, i) IN
                 IF n > 0
                 THEN <<SubSeq(s, from, i - 1)>> \o SplitAt(i + n, i + n)
                 ELSE SplitAt(i + 1, from)
    IN SplitAt(1, 1)

\* if (current) chunks.push(current.trim())
PushTrimmed(chunks, current) ==
    IF current # <<>> THEN Append(chunks, trim(current)) ELSE chunks

\* The for loop of chunkText, from sentence k on.
RECURSIVE ChunkTextLoop(_, _, _, _, _)
ChunkTextLoop(sentences, k, chunks, current, maxSize) ==
    IF k > Len(sentences) THEN PushTrimmed(chunks, current)
    ELSE IF Len(current \o sentences[k]) > maxSize
         THEN ChunkTextLoop(sentences, k + 1, PushTrimmed(chunks, current),
                            sentences[k], maxSize)
         ELSE ChunkTextLoop(sentences, k + 1, chunks,
                            current \o sentences[k], maxSize)

\* src/api/summarize.js:43
chunkText(s, maxSize) ==
    LET found == MatchAll(s, MatchSentence)
        sentences == IF found = <<>> THEN <<s>> ELSE found
    IN ChunkTextLoop(sentences, 1, <<>>, <<>>, maxSize)

\* The while loop that cuts one sentence: s.slice(start, start + maxChars)
\* (start counts from 1 here).
RECURSIVE HardSplit(_, _, _)
HardSplit(s, start, maxChars) ==
    IF start > Len(s) THEN <<>>
    ELSE LET last == IF start + maxChars - 1 < Len(s)
                     THEN start + maxChars - 1 ELSE Len(s)
         IN <<SubSeq(s, start, last)>> \o HardSplit(s, start + maxChars, maxChars)

\* The for loop of splitIntoChunks (part_000), from sentence k on.
RECURSIVE SplitLoop(_, _, _, _, _)
SplitLoop(sentences, k, chunks, current, maxChars) ==
    IF k > Len(sentences) THEN PushTrimmed(chunks, current)
    ELSE IF Len(current \o sentences[k]) > maxChars
         THEN IF current # <<>>
              THEN SplitLoop(sentences, k + 1, Append(chunks, trim(current)),
                             sentences[k], maxChars)
              ELSE SplitLoop(sentences, k + 1,
                             chunks \o HardSplit(sentences[k], 1, maxChars),
                             <<>>, maxChars)
         ELSE SplitLoop(sentences, k + 1, chunks,
                        current \o sentences[k], maxChars)

\* src/unnamed/part_000:16 (and src/unnamed/part_002:284)
splitIntoChunks(s, maxChars) ==
    IF s = <<>> THEN <<>>
    ELSE IF Len(s) <= maxChars THEN <<s>>
    ELSE LET found == MatchAll(s, MatchSentenceSpace)
             sentences == IF found = <<>> THEN <<s>> ELSE found
         IN SplitLoop(sentences, 1, <<>>, <<>>, maxChars)

\* The inner for loop of splitIntoChunks (part_002:865) over the sentences of
\* one long paragraph; gives <<chunks, currentChunk>>.
RECURSIVE ParaSentenceLoop(_, _, _, _, _)
ParaSentenceLoop(sentences, k, chunks, currentChunk, maxLength) ==
    IF k > Len(sentences) THEN <<chunks, currentChunk>>
    ELSE IF Len(currentChunk \o sentences[k]) <= maxLength
         THEN ParaSentenceLoop(sentences, k + 1, chunks,
                               currentChunk \o sentences[k], maxLength)
         ELSE ParaSentenceLoop(sentences, k + 1,
                               PushTrimmed(chunks, currentChunk),
                               sentences[k], maxLength)

\* The outer for loop of splitIntoChunks (part_002:856), from paragraph p on.
RECURSIVE ParagraphLoop(_, _, _, _, _)
ParagraphLoop(paragraphs, p, chunks, currentChunk, maxLength) ==
    IF p > Len(paragraphs) THEN PushTrimmed(chunks, currentChunk)
    ELSE LET para == paragraphs[p] IN
         IF Len(para) > maxLength
         THEN LET found == MatchAll(para, MatchSentence)
                  sentences == IF found = <<>> THEN <<para>> ELSE found
                  r == ParaSentenceLoop(sentences, 1,
                                        PushTrimmed(chunks, currentChunk),
                                        <<>>, maxLength)
              IN ParagraphLoop(paragraphs, p + 1, r[1], r[2], maxLength)
         ELSE IF Len(currentChunk \o <<"\n", "\n">> \o para) <= maxLength
              THEN ParagraphLoop(paragraphs, p + 1, chunks,
                                 currentChunk
                                   \o (IF currentChunk # <<>>
                                       THEN <<"\n", "\n">> ELSE <<>>)
                                   \o para,
                                 maxLength)
              ELSE ParagraphLoop(paragraphs, p + 1,
                                 PushTrimmed(chunks, currentChunk),
                                 para, maxLength)

\* src/unnamed/part_002:846
splitIntoChunks2(s, maxLength) ==
    IF s = <<>> \/ Len(s) <= maxLength THEN <<s>>
    ELSE SelectSeq(ParagraphLoop(Split(s, MatchParagraphBreak), 1, <<>>, <<>>,
                                 maxLength),
                   LAMBDA c : Len(c) > 0)

---------------------------------------------------------------------------
(* A chunker applied to one input.                                         *)

ChunkAlphabet == {"a", ".", " ", "\n"}

InitChunk ==
    /\ text \in StringsOver(ChunkAlphabet, MaxChunkLen)
    /\ param \in 1..MaxChunkSize
    /\ op = "none"
    /\ out = <<>>
    /\ ClientIdle
    /\ HandlerIdle
    /\ AsideIdle

ChunkText ==
    /\ op = "none"
    /\ out' = chunkText(text, param)
    /\ op' = "chunkText"
    /\ UNCHANGED <<text, param, clientVars, handlerVars, asideVars>>

SplitIntoChunks ==
    /\ op = "none"
    /\ out' = splitIntoChunks(text, param)
    /\ op' = "splitIntoChunks"
    /\ UNCHANGED <<text, param, clientVars, handlerVars, asideVars>>

SplitIntoChunks2 ==
    /\ op = "none"
    /\ out' = splitIntoChunks2(text, param)
    /\ op' = "splitIntoChunks2"
    /\ UNCHANGED <<text, param, clientVars, handlerVars, asideVars>>

NextChunk == ChunkText \/ SplitIntoChunks \/ SplitIntoChunks2

SpecChunk == InitChunk /\ [][NextChunk]_vars

---------------------------------------------------------------------------
(* Claims about the chunkers.                                              *)

ChunkOps == {"chunkText", "splitIntoChunks", "splitIntoChunks2"}

\* C3: every chunk the chunker returns has length <= the bound; a sentence
\* longer than the bound is cut into pieces of at most that length.
C3_ChunksWithinBound ==
    op \in ChunkOps => \A k \in 1..Len(out) : Len(out[k]) <= param

NonSpace(c) == ~IsSpace(c)

\* C4: chunking is lossless: the chunks, concatenated in order, hold every
\* non-whitespace character of the input, in order (whitespace is ignored
\* everywhere, which asks no more than the claim does).
C4_ChunksLossless ==
    op \in ChunkOps =>
        SelectSeq(Concat(out), NonSpace) = SelectSeq(text, NonSpace)

\* C5: the chunker returns the empty sequence for the empty string and never
\* returns an empty chunk.
C5_NoEmptyChunk ==
    op \in ChunkOps =>
        /\ text = <<>> => out = <<>>
        /\ \A k \in 1..Len(out) : Len(out[k]) >= 1

---------------------------------------------------------------------------
(* The extractive summarizer.                                              *)

\* text.match(/[^.!?]+[.!?]+/g) || []
Sentences(s) == MatchAll(s, MatchSentence)

\* String.prototype.includes
Includes(s, w) ==
    \E i \in 1..(Len(s) - Len(w) + 1) : SubSeq(s, i, i + Len(w) - 1) = w

\* /\d+/.test
HasDigit(s) == \E i \in 1..Len(s) : IsDigit(s[i])

\* Array.prototype.join
RECURSIVE join(_, _)
join(ss, sep) ==
    IF ss = <<>> THEN <<>>
    ELSE IF Len(ss) = 1 THEN ss[1]
    ELSE ss[1] \o sep \o join(Tail(ss), sep)

\* Array.prototype.slice(0, k)
slice0(items, k) == SubSeq(items, 1, IF k < Len(items) THEN k ELSE Len(items))

\* String.prototype.substring(0, k)
substring0(s, k) == SubSeq(s, 1, IF k < Len(s) THEN k ELSE Len(s))

\* The keyword list of src/api/summarize.js:137
Keywords1 == <<
    <<"i","s","t">>,
    <<"s","i","n","d">>,
    <<"w","i","r","d">>,
    <<"w","u","r","d","e">>,
    <<"k","a","n","n">>,
    <<"h","a","t">>,
    <<"h","a","b","e","n">>,
    <<"w","i","c","h","t","i","g">>,
    <<"b","e","d","e","u","t","e","n","d">>,
    <<"h","a","u","p","t">>,
    <<"e","r","s","t","e">>,
    <<"g","r","ouml","szlig","t","e">>>>

\* The keyword list of src/api/summarize.js:399 (and src/unnamed/part_002:60)
Keywords2 == <<
    <<"i","s","t">>,
    <<"s","i","n","d">>,
    <<"w","a","r">>,
    <<"w","a","r","e","n">>,
    <<"w","i","r","d">>,
    <<"w","u","r","d","e">>,
    <<"w","u","r","d","e","n">>,
    <<"h","a","t">>,
    <<"h","a","b","e","n">>,
    <<"h","a","t","t","e">>,
    <<"k","a","n","n">>,
    <<"k","o","n","n","t","e">>,
    <<"m","u","s","s">>,
    <<"w","i","c","h","t","i","g">>,
    <<"b","e","d","e","u","t","e","n","d">>,
    <<"h","a","u","p","t","s","auml","c","h","l","i","c","h">>,
    <<"b","e","s","o","n","d","e","r","s">>,
    <<"e","r","s","t","e">>,
    <<"g","r","ouml","szlig","t","e">>,
    <<"b","e","k","a","n","n","t">>,
    <<"b","e","r","uuml","h","m","t">>,
    <<"z","e","n","t","r","a","l">>,
    <<"b","e","i","s","p","i","e","l">>,
    <<"j","e","d","o","c","h">>,
    <<"d","e","s","h","a","l","b">>,
    <<"d","a","h","e","r">>,
    <<"a","l","s","o">>>>

\* How many keywords of the list the string holds (forEach ... includes).
KeywordHits(s, keywords) ==
    Cardinality({k \in 1..Len(keywords) : Includes(s, keywords[k])})

\* The score of src/api/summarize.js:127-141; idx counts from 0.
Score1(sent, idx) ==
    LET len == Len(trim(sent)) IN
      (IF idx < 5 THEN 3 ELSE 0)
    + (IF len > 50 /\ len < 200 THEN 2 ELSE 0)
    + KeywordHits(toLowerCase(sent), Keywords1)

\* Twice the score of src/api/summarize.js:385-416 (a keyword adds 0.5
\* there, 1 here); index counts from 0.
Score2(sentence, index) ==
    LET sent == trim(sentence)
        len == Len(sent)
    IN (IF index < 3 THEN 10 ELSE IF index < 10 THEN 6
        ELSE IF index < 20 THEN 2 ELSE 0)
     + (IF len > 40 /\ len < 200 THEN 6
        ELSE IF len > 20 /\ len < 300 THEN 2 ELSE 0)
     + KeywordHits(toLowerCase(sent), Keywords2)
     + (IF HasDigit(sent) THEN 2 ELSE 0)
     - (IF len < 20 THEN 4 ELSE 0)

\* The order Array.prototype.sort gives: before(a, b) says that the
\* comparator puts a strictly before b; the sort is stable.
SortBy(items, before(_, _)) ==
    LET n == Len(items)
        rank(i) == 1 + Cardinality({j \in 1..n :
                        \/ before(items[j], items[i])
                        \/ ~before(items[i], items[j]) /\ j < i})
    IN [r \in 1..n |-> items[CHOOSE i \in 1..n : rank(i) = r]]

ScoreAscending(a, b) == a.score < b.score
ScoreDescending(a, b) == a.score > b.score
IndexAscending(a, b) == a.index < b.index

\* A plausible slip in the comparator: a.score - b.score.
SortByScoreAscending(items) == SortBy(items, ScoreAscending)

\* .sort((a, b) => b.score - a.score)
SortByScore(items) == SortBy(items, ScoreDescending)

\* .sort((a, b) => a.index - b.index)
SortByIndex(items) == SortBy(items, IndexAscending)

\* sentences.map(...) of src/api/summarize.js:126; the index is not part of
\* the source's record, it names the element.
Scored1(sentences) ==
    [k \in 1..Len(sentences) |->
        [text |-> trim(sentences[k]),
         score |-> Score1(sentences[k], k - 1),
         index |-> k - 1]]

\* sentences.map(...) of src/api/summarize.js:384
Scored2(sentences) ==
    [k \in 1..Len(sentences) |->
        [text |-> trim(sentences[k]),
         score |-> Score2(sentences[k], k - 1),
         index |-> k - 1]]

Texts(items) == [k \in 1..Len(items) |-> items[k].text]

\* src/api/summarize.js:122: the elements joined at line 151.
extractiveSummaryItems(s, maxSentences) ==
    slice0(SortByScore(Scored1(Sentences(s))), maxSentences)

\* src/api/summarize.js:122
extractiveSummary(s, maxSentences) ==
    join(Texts(extractiveSummaryItems(s, maxSentences)), <<" ">>)

\* src/api/summarize.js:376 (and src/unnamed/part_002:42): the sentences the
\* result is joined from; the early return of line 381 joins them all, as
\* matched.
extractiveSummary2Items(s, targetSentences) ==
    LET sentences == Sentences(s) IN
    IF Len(sentences) <= targetSentences
    THEN [k \in 1..Len(sentences) |->
             [text |-> sentences[k], score |-> 0, index |-> k - 1]]
    ELSE SortByIndex(slice0(SortByScore(Scored2(sentences)), targetSentences))

\* src/api/summarize.js:376 (and src/unnamed/part_002:42)
extractiveSummary2(s, targetSentences) ==
    IF Len(Sentences(s)) = 0 THEN substring0(s, 500)
    ELSE join(Texts(extractiveSummary2Items(s, targetSentences)), <<" ">>)

---------------------------------------------------------------------------
(* The extractive summarizer applied to one input.  The inputs are the     *)
(* texts made of at most MaxPieces of the pieces below: sentences inside   *)
(* and outside the length bands of the score, with a digit, with a         *)
(* keyword, and text without a terminator.                                 *)

Repeat(c, n) == [k \in 1..n |-> c]

Pieces ==
    { <<"a", ".">>,
      <<" ", "1", "!">>,
      <<"i", "s", "t", "?">>,
      Repeat("b", 51) \o <<".">>,
      <<"z">> }

InitExtract ==
    /\ text \in {Concat(ps) : ps \in StringsOver(Pieces, MaxPieces)}
    /\ param \in 1..MaxTarget
    /\ op = "none"
    /\ out = <<>>
    /\ ClientIdle
    /\ HandlerIdle
    /\ AsideIdle

ExtractiveSummary ==
    /\ op = "none"
    /\ out' = [items |-> extractiveSummaryItems(text, param),
               summary |-> extractiveSummary(text, param)]
    /\ op' = "extractiveSummary"
    /\ UNCHANGED <<text, param, clientVars, handlerVars, asideVars>>

ExtractiveSummary2 ==
    /\ op = "none"
    /\ out' = [items |-> extractiveSummary2Items(text, param),
               summary |-> extractiveSummary2(text, param)]
    /\ op' = "extractiveSummary2"
    /\ UNCHANGED <<text, param, clientVars, handlerVars, asideVars>>

NextExtract == ExtractiveSummary \/ ExtractiveSummary2

SpecExtract == InitExtract /\ [][NextExtract]_vars

---------------------------------------------------------------------------
(* Claims about the extractive summarizer.                                 *)

ExtractOps == {"extractiveSummary", "extractiveSummary2"}

\* C6: the sentences of the output of extractiveSummary stand in the order
\* they have in the input, whatever their scores.
C6_SummaryKeepsOrder ==
    op \in ExtractOps =>
        \A a, b \in 1..Len(out.items) :
            a < b => out.items[a].index < out.items[b].index

\* C7: for a text of at least one and at most k sentences,
\* extractiveSummary(text, k) returns all its sentences, each once, in the
\* original order.
C7_ShortTextReturnedWhole ==
    (op \in ExtractOps /\ Len(Sentences(text)) \in 1..param) =>
        /\ Len(out.items) = Len(Sentences(text))
        /\ \A a \in 1..Len(out.items) :
              /\ out.items[a].index = a - 1
              /\ trim(out.items[a].text) = trim(Sentences(text)[a])
        /\ out.summary = join(Texts(out.items), <<" ">>)

Picked == {out.items[a].index : a \in 1..Len(out.items)}

\* C8: for a text of more than k sentences, extractiveSummary(text, k) of
\* src/api/summarize.js:376 returns exactly k distinct sentences of the
\* input; no sentence left out has a higher score than one taken, and of
\* two sentences of equal score the earlier one is taken first.
C8_TopKByScore ==
    (op = "extractiveSummary2" /\ Len(Sentences(text)) > param) =>
        LET sentences == Sentences(text)
            score(i) == Score2(sentences[i + 1], i)
        IN /\ Len(out.items) = param
           /\ Cardinality(Picked) = param
           /\ \A a \in 1..Len(out.items) :
                 /\ out.items[a].index \in 0..(Len(sentences) - 1)
                 /\ out.items[a].text = trim(sentences[out.items[a].index + 1])
           /\ out.summary = join(Texts(out.items), <<" ">>)
           /\ \A i \in Picked, j \in (0..(Len(sentences) - 1)) \ Picked :
                 /\ score(j) <= score(i)
                 /\ score(j) = score(i) => i < j

\* Reached: a selection that left out a sentence of lower score standing
\* before a taken one, and broke a tie between equal scores.
C8_Witness ==
    /\ op = "extractiveSummary2"
    /\ Len(Sentences(text)) > param
    /\ LET sentences == Sentences(text)
           score(i) == Score2(sentences[i + 1], i)
           rest == (0..(Len(sentences) - 1)) \ Picked
       IN /\ \E i \in Picked, j \in rest : j < i /\ score(j) < score(i)
          /\ \E i \in Picked, j \in rest : score(j) = score(i)

---------------------------------------------------------------------------
(* The remote inference client: callHF (src/api/summarize.js:76) and       *)
(* callHuggingFace (src/unnamed/part_002:908).                             *)

\* What one HTTP exchange with the provider can come to:
\*   ok       a 2xx response whose JSON body holds the text
\*   warm     status 503, the body says the model is loading
\*   busy503  status 503, the body does not say "loading"
\*   hard     any other non-2xx status (a 4xx client error)
\*   neterr   fetch rejects: a network error, or the abort of the timeout
\*   badjson  a 2xx response whose body response.json() cannot parse
\* A 2xx response with a parsable body comes in these shapes:
\*   ok             an array whose first object has summary_text
\*   okTranslation  an array whose first object has translation_text only
\*   okObject       a bare object with summary_text
\*   okString       a non-empty JSON string
\*   okEmptyArray   the empty array
\*   okNoText       an object without any text field
\*   okNull         null
OkBodies == {"ok", "okTranslation", "okObject", "okString", "okEmptyArray",
             "okNoText", "okNull"}

Outcomes == OkBodies \cup {"warm", "busy503", "hard", "neterr", "badjson"}

\* What callHF (src/api/summarize.js:105-111) and callHuggingFace
\* (src/unnamed/part_002:942-952) make of a parsed body: "text" is the value
\* of the text field, "TypeError" the exception of reading a property of
\* null.
ExtractText(o) ==
    IF o \in {"ok", "okTranslation", "okObject"} THEN "text"
    ELSE IF o = "okNull" THEN "TypeError"
    ELSE ""

\* What callHfRouter (src/unnamed/part_000:83-92) makes of the body: "body"
\* is the string body itself, "json" the JSON text of JSON.stringify,
\* "undefined" the value of JSON.stringify(undefined); a body that cannot be
\* parsed counts as null.
ExtractTextRouter(o) ==
    IF o \in {"okNull", "badjson"} THEN ""
    ELSE IF o = "okString" THEN "body"
    ELSE IF o \in {"ok", "okObject"} THEN "text"
    ELSE IF o = "okEmptyArray" THEN "undefined"
    ELSE "json"

\* await new Promise(r => setTimeout(r, 30000)), src/api/summarize.js:97
WarmupDelayHF == 30000

\* setTimeout(resolve, 25000), src/unnamed/part_002:935
WarmupDelayHuggingFace == 25000

\* setTimeout(r, 5000), src/api/summarize.js:116, src/unnamed/part_002:957
RetryDelay == 5000

\* The branch an answer takes inside the try block.
\* callHF: response.status === 503 comes first, then !response.ok throws.
\* callHuggingFace: !response.ok, and inside it 503 with "loading" in the
\* body; every other non-2xx status throws.
\* callHfRouter: !resp.ok throws, resp.json().catch(() => null) does not.
Branch(c, o) ==
    IF c = "callHfRouter"
    THEN IF o \in OkBodies \cup {"badjson"} THEN "success" ELSE "throw"
    ELSE IF o \in OkBodies
    THEN IF ExtractText(o) = "TypeError" THEN "throw" ELSE "success"
    ELSE IF c = "callHF" /\ o \in {"warm", "busy503"} THEN "warmup"
    ELSE IF c = "callHuggingFace" /\ o = "warm" THEN "warmup"
    ELSE "throw"

\* A plausible slip: the loop gives up one attempt early.
IsLastAttemptEarly == attempt >= maxRetries - 2

\* if (i === maxRetries - 1) throw err
IsLastAttempt == attempt = maxRetries - 1

InitClient ==
    /\ text = <<>>
    /\ param = 0
    /\ op = "none"
    /\ out = <<>>
    /\ client \in {"callHF", "callHuggingFace", "callHfRouter"}
    /\ maxRetries \in 1..MaxRetries
    /\ client = "callHfRouter" => maxRetries = 1   \* no loop: one attempt
    /\ attempt = 0
    /\ calls = 0
    /\ pc = "loop"
    /\ answers = <<>>
    /\ result = "none"
    /\ sleeps = <<>>
    /\ HandlerIdle
    /\ AsideIdle

\* for (let i = 0; i < maxRetries; i++) { try { await fetchWithTimeout(...)
Issue ==
    /\ pc = "loop"
    /\ attempt < maxRetries
    /\ calls' = calls + 1
    /\ pc' = "fetch"
    /\ UNCHANGED <<asideVars, pureVars, handlerVars>>
    /\ UNCHANGED <<client, maxRetries, attempt, answers, result,
                   sleeps>>

\* The loop ends without a return: callHF falls off its end and returns
\* undefined; callHuggingFace throws "Max retries exceeded".
Exhaust ==
    /\ pc = "loop"
    /\ attempt >= maxRetries
    /\ IF client = "callHF"
       THEN pc' = "returned" /\ result' = "undefined"
       ELSE pc' = "threw" /\ result' = "Max retries exceeded"
    /\ UNCHANGED <<asideVars, pureVars, handlerVars>>
    /\ UNCHANGED <<client, maxRetries, attempt, calls, answers,
                   sleeps>>

\* A 2xx answer with a body: what is extracted from it is returned.
Succeed ==
    /\ pc = "fetch"
    /\ \E o \in Outcomes :
          /\ Branch(client, o) = "success"
          /\ answers' = Append(answers, o)
          /\ result' = IF client = "callHfRouter" THEN ExtractTextRouter(o)
                       ELSE ExtractText(o)
    /\ pc' = "returned"
    /\ UNCHANGED <<asideVars, pureVars, handlerVars>>
    /\ UNCHANGED <<client, maxRetries, attempt, calls, sleeps>>

\* The model is loading: wait, then continue with the next attempt.
Warmup ==
    /\ pc = "fetch"
    /\ \E o \in Outcomes :
          /\ Branch(client, o) = "warmup"
          /\ answers' = Append(answers, o)
    /\ pc' = "sleep"
    /\ sleeps' = Append(sleeps, IF client = "callHF" THEN WarmupDelayHF
                                ELSE WarmupDelayHuggingFace)
    /\ UNCHANGED <<asideVars, pureVars, handlerVars>>
    /\ UNCHANGED <<client, maxRetries, attempt, calls, result>>

\* Anything thrown inside the try block lands in the catch block: thrown
\* again on the last attempt, else a wait and the next attempt.
Fail ==
    /\ pc = "fetch"
    /\ \E o \in Outcomes :
          /\ Branch(client, o) = "throw"
          /\ answers' = Append(answers, o)
          /\ IF IsLastAttempt
             THEN /\ pc' = "threw"
                  /\ result' = o
                  /\ sleeps' = sleeps
             ELSE /\ pc' = "sleep"
                  /\ result' = result
                  /\ sleeps' = Append(sleeps, RetryDelay)
    /\ UNCHANGED <<asideVars, pureVars, handlerVars>>
    /\ UNCHANGED <<client, maxRetries, attempt, calls>>

\* A loop that tries again without counting the attempt.
AfterWaitUncounted(i) == i

\* i++ of for (let i = 0; i < maxRetries; i++), after continue and after
\* the catch block alike.
AfterWait(i) == i + 1

\* The wait is over: i++ and the loop condition again.
Wake ==
    /\ pc = "sleep"
    /\ attempt' = AfterWait(attempt)
    /\ pc' = "loop"
    /\ UNCHANGED <<asideVars, pureVars, handlerVars>>
    /\ UNCHANGED <<client, maxRetries, calls, answers, result,
                   sleeps>>

NextClient == Issue \/ Exhaust \/ Succeed \/ Warmup \/ Fail \/ Wake

SpecClient == InitClient /\ [][NextClient]_vars

---------------------------------------------------------------------------
(* Claims about the inference client.                                      *)

Terminated == pc \in {"returned", "threw"}

\* The failures the retry policy calls transient: the warm-up status and
\* whatever is thrown without a hard HTTP status.
Transient == {"warm", "busy503", "neterr", "badjson"}

\* The provider seen so far fails transiently on each of the calls
\* 1 .. maxRetries - 1 and succeeds on call maxRetries.
FailsThenSucceeds ==
    \A n \in 1..Len(answers) :
        /\ n < maxRetries => answers[n] \in Transient
        /\ n = maxRetries => answers[n] = "ok"

\* C9: with a provider that fails transiently exactly maxRetries - 1 times
\* and then succeeds, the client ends by returning the text, after exactly
\* maxRetries HTTP calls, whatever the mix of 503 answers and thrown
\* failures.
C9_RetryUntilSuccess ==
    (Terminated /\ FailsThenSucceeds) =>
        /\ pc = "returned"
        /\ result = "text"
        /\ calls = maxRetries
        /\ Len(answers) = maxRetries

\* Reached: the text returned on the third call, after one 503 answer and
\* one thrown failure.
C9_Witness ==
    /\ pc = "returned"
    /\ result = "text"
    /\ maxRetries = 3
    /\ calls = 3
    /\ FailsThenSucceeds
    /\ \E m, n \in 1..2 :
          /\ Branch(client, answers[m]) = "warmup"
          /\ Branch(client, answers[n]) = "throw"

\* C10: with a provider that always answers with a hard error (a non-2xx
\* status other than 503), the client issues exactly one HTTP call, does
\* not retry, and ends with an error.
C10_HardErrorNotRetried ==
    (Terminated /\ answers # <<>>
       /\ \A n \in 1..Len(answers) : answers[n] = "hard") =>
        /\ calls = 1
        /\ pc = "threw"

\* A failure that is neither the warm-up answer nor a hard HTTP status.
GenericFailure(o) == Branch(client, o) = "throw" /\ o # "hard"

\* The provider seen so far warms up w times, then fails generically
\* maxRetries - 1 times, then succeeds.
WarmsThenFailsThenSucceeds(w) ==
    \A n \in 1..Len(answers) :
        /\ n <= w => Branch(client, answers[n]) = "warmup"
        /\ (w < n /\ n < w + maxRetries) => GenericFailure(answers[n])
        /\ n = w + maxRetries => answers[n] = "ok"
        /\ n <= w + maxRetries

\* C11: warm-up answers are not counted against the retries for generic
\* failures: with a provider that warms up w >= 1 times, then fails
\* generically maxRetries - 1 times and then succeeds, the client ends by
\* returning the text.
C11_WarmupNotCounted ==
    \A w \in 1..MaxRetries :
        (Terminated /\ Len(answers) >= w /\ WarmsThenFailsThenSucceeds(w)) =>
            /\ pc = "returned"
            /\ result = "text"

\* C12: a client that has used up its attempts without a successful answer
\* ends by throwing; it never returns normally, also when the last attempt,
\* or every attempt, got the status 503.
C12_ExhaustionThrows ==
    (Terminated /\ \A n \in 1..Len(answers) :
                       Branch(client, answers[n]) # "success") =>
        pc = "threw"

\* The string the response normalisation is to give for a body.
ExpectedText(o) ==
    IF o \in {"ok", "okTranslation", "okObject"} THEN "text"
    ELSE IF o = "okString" THEN "body"
    ELSE ""

\* C13: a 2xx answer is mapped to a plain string totally: the text of the
\* first object of an array, the text of a bare object, a string body
\* itself, and the empty string for every other shape (empty array, object
\* without text field, null), without an exception and without a retry.
C13_BodyMappedTotally ==
    \A n \in 1..Len(answers) :
        answers[n] \in OkBodies =>
            /\ n = Len(answers)
            /\ pc = "returned"
            /\ result = ExpectedText(answers[n])

---------------------------------------------------------------------------
(* The request handlers. The repository holds several versions of the one  *)
(* handler; each is named by the place of its definition.                  *)

\* callHF, extractive summary refined by the model, translateText
HandlerHybrid == "src/api/summarize.js:262"

\* extractive summary only, translateWithLibre
HandlerFast == "src/api/summarize.js:498"

\* callHfRouter per chunk, a combining call, LibreTranslate
HandlerRouter == "src/unnamed/part_000:98"

\* one direct inference request, LibreTranslate, MyMemory
HandlerDirect == "src/unnamed/part_000:200"

\* as HandlerDirect, with a second model as fallback
HandlerFallbackModel == "src/unnamed/part_001:5"

\* as HandlerRouter, summarising in the requested language
HandlerRouterLang == "src/unnamed/part_002:407"

\* as HandlerDirect, with a validated URL and guarded steps
HandlerValidated == "src/unnamed/part_002:542"

\* callHuggingFace per chunk (summarizeText), translateText
HandlerChunked == "src/unnamed/part_002:1134"

Handlers ==
    {HandlerHybrid, HandlerFast, HandlerRouter, HandlerDirect,
     HandlerFallbackModel, HandlerRouterLang, HandlerValidated,
     HandlerChunked}

ChunkingHandlers == {HandlerRouter, HandlerRouterLang, HandlerChunked}

DirectHandlers == {HandlerDirect, HandlerFallbackModel, HandlerValidated}

\* The kinds of request. body: a JSON object, or a string JSON.parse
\* rejects. url: absent, an http(s) URL, a URL of another scheme, a string
\* that is no URL, a value that is no string (a number). language: absent,
\* "en", a code with a translation model ("de"), a code without one, a value
\* that is no string.
UrlKinds == {"missing", "http", "ftp", "notAUrl", "nonString"}

LanguageKinds == {"missing", "en", "de", "xx", "nonString"}

Requests ==
    {[body |-> "object", url |-> u, language |-> l] :
        u \in UrlKinds, l \in LanguageKinds}
    \cup {[body |-> "invalidJson", url |-> "missing", language |-> "missing"]}

\* No pure function is under check while a request is handled.
PureIdle ==
    /\ text = <<>>
    /\ param = 0
    /\ op = "none"
    /\ out = <<>>

InitHandler ==
    /\ PureIdle
    /\ ClientIdle
    /\ AsideIdle
    /\ handler \in Handlers
    /\ request \in Requests
    /\ stage = "validate"
    /\ article = "none"
    /\ chunkCount = 0
    /\ chunkIdx = 0
    /\ chunkResults = <<>>
    /\ summaries = <<>>
    /\ summary = [from |-> "none", size |-> "empty"]
    /\ subChunks = 0
    /\ translations = <<>>
    /\ pageFetches = 0
    /\ pageResult = "none"
    /\ deadlinePassed = FALSE
    /\ condenseResult = "notCalled"
    /\ inferenceCalls = 0
    /\ translationCalls = 0
    /\ response = <<>>

\* A response that is not followed by return: the handler goes on from the
\* step it was at.
ReplyWithoutReturn(status, kind, sent) ==
    /\ response' = Append(response,
                          [status |-> status, kind |-> kind, summary |-> sent])
    /\ stage' = stage

\* res.status(status).json(...): kind classifies the message of the body,
\* sent is the summary field.
Reply(status, kind, sent) ==
    /\ response' = Append(response,
                          [status |-> status, kind |-> kind, summary |-> sent])
    /\ stage' = "done"

\* What the handler does before the page fetch: parse the body, check url
\* and language. The outer catch block answers 500 for what JSON.parse
\* throws; only HandlerValidated catches it itself and validates the URL.
Validate ==
    /\ stage = "validate"
    /\ IF request.body = "invalidJson"
       THEN IF handler = HandlerValidated
            THEN Reply(400, "validation", "none")
            ELSE Reply(500, "internal", "none")
       ELSE IF request.url = "missing" \/ request.language = "missing"
       THEN Reply(400, "validation", "none")
       ELSE IF /\ handler = HandlerFast
               /\ "nonString" \in {request.url, request.language}
       THEN Reply(400, "validation", "none")
       ELSE IF handler = HandlerValidated /\ request.url # "http"
       THEN Reply(400, "validation", "none")
       ELSE stage' = "fetchPage" /\ response' = response
    /\ UNCHANGED <<asideVars, pureVars, clientVars, pageResult, deadlinePassed,
                   condenseResult>>
    /\ UNCHANGED <<chunkResults, handler, request,
                   article, chunkCount, chunkIdx,
                   summaries, summary, subChunks, translations, pageFetches,
                   inferenceCalls, translationCalls>>

\* What the page fetcher can come to for a URL: fetch rejects at once for
\* what is no http(s) URL.
PageOutcomes(u) ==
    IF u = "http" THEN {"ok", "tiny", "non2xx", "neterr", "timeout"}
    ELSE {"neterr"}

\* The handlers with a try block of its own around the page fetch.
FetchGuarded == {HandlerFast, HandlerRouterLang, HandlerValidated}

\* 1) load the page
FetchPage ==
    /\ stage = "fetchPage"
    /\ pageFetches' = pageFetches + 1
    /\ \E o \in PageOutcomes(request.url) :
        /\ pageResult' = o
        /\ IF o = "non2xx" THEN Reply(400, "fetch", "none")
           ELSE IF o \in {"neterr", "timeout"}
           THEN IF handler = HandlerValidated
                THEN Reply(400, "fetch", "none")
                ELSE IF handler \in FetchGuarded
                THEN Reply(502, "fetch", "none")
                ELSE Reply(500, "internal", "none")
           ELSE IF o = "tiny" /\ handler = HandlerValidated
           THEN Reply(400, "fetch", "none")
           ELSE stage' = "extract" /\ response' = response
    /\ UNCHANGED <<asideVars, pureVars, clientVars, deadlinePassed,
                   condenseResult>>
    /\ UNCHANGED <<chunkResults, handler, request,
                   article, chunkCount, chunkIdx,
                   summaries, summary, subChunks, translations,
                   inferenceCalls, translationCalls>>

\* The stage that follows the extraction.
FirstSummaryStage(h) ==
    IF h = HandlerHybrid THEN "direct"
    ELSE IF h = HandlerFast THEN "extractive"
    ELSE IF h \in ChunkingHandlers THEN "chunks"
    ELSE "inference"

\* The numbers of chunks the chunker of a handler can return:
\* splitIntoChunks of part_000 returns [] for the empty text.
ChunkCounts(h) ==
    IF h \in {HandlerRouter, HandlerRouterLang} THEN 0..MaxChunks
    ELSE IF h = HandlerChunked THEN 1..MaxChunks
    ELSE {0}

\* The length of the longest article text; ArticleLimit stands for the
\* limit of the handler: MAX_ARTICLE_CHARS, MAX_TEXT_LENGTH,
\* MAX_TOTAL_CHARS, or the 3000 and 5000 of the slices.
MaxRawLen == 5

ArticleLimit == 3

\* '...'.length, src/unnamed/part_002:638
EllipsisLen == 3

\* The length of the text the handler hands to its chunker or summarizer
\* for an article text of n characters (after cleaning):
\* cleaned.substring(0, MAX_ARTICLE_CHARS) if it is longer; part_002:638
\* appends '...' to the slice; part_000:127-129 chunks the whole text.
Handed(h, n) ==
    IF h = HandlerRouter THEN n
    ELSE IF n <= ArticleLimit THEN n
    ELSE IF h = HandlerValidated THEN ArticleLimit + EllipsisLen
    ELSE ArticleLimit

\* The classes of a text of len characters handed on: "overLimit" when it
\* is longer than the limit, else "short" or "long" by the limit of the
\* direct call.
ArticleClasses(len) ==
    IF len > ArticleLimit THEN {"overLimit"} ELSE {"short", "long"}

\* What reader.parse() can come to: an article with text, null, an article
\* whose textContent is empty, an exception of JSDOM or Readability.
ExtractOutcomes == {"article", "null", "emptyText", "throws"}

\* The test of the extraction result that looks at the article only:
\* if (!article).
ExtractionVerdictArticleOnly(h, o) ==
    IF o = "throws"
    THEN IF h = HandlerValidated THEN "extraction" ELSE "internal"
    ELSE IF o = "null" THEN "extraction"
    ELSE "article"

\* if (!article || !article.textContent) return res.status(400): the
\* answer to an extraction outcome. Only HandlerValidated catches what
\* the extractor throws; elsewhere the outer catch block answers 500.
ExtractionVerdict(h, o) ==
    IF o = "throws"
    THEN IF h = HandlerValidated THEN "extraction" ELSE "internal"
    ELSE IF o \in {"null", "emptyText"} THEN "extraction"
    ELSE "article"

\* 2) extract the article, 3) clean and truncate its text. article keeps
\* the outcome of the extractor, or the length class of the cleaned text:
\* "short" is a text under the limit of the direct call
\* (text.length < 3000, src/api/summarize.js:159), else "long".
Extract ==
    /\ stage = "extract"
    /\ \E o \in ExtractOutcomes :
          LET v == ExtractionVerdict(handler, o) IN
          /\ \E n \in 1..MaxRawLen :
                article' \in (IF o = "article"
                              THEN ArticleClasses(Handed(handler, n))
                              ELSE {o})
          /\ IF v = "article"
             THEN /\ stage' = FirstSummaryStage(handler)
                  /\ response' = response
                  /\ chunkCount' \in ChunkCounts(handler)
                  /\ chunkIdx' = 1
             ELSE /\ Reply(IF v = "internal" THEN 500 ELSE 400, v, "none")
                  /\ UNCHANGED <<chunkCount, chunkIdx>>
    /\ UNCHANGED <<asideVars, pureVars, clientVars, pageResult, deadlinePassed,
                   condenseResult>>
    /\ UNCHANGED <<chunkResults, handler, request,
                   summaries, summary, subChunks,
                   translations, pageFetches, inferenceCalls,
                   translationCalls>>

\* The inference client a handler calls.
ClientOf(h) ==
    IF h = HandlerHybrid THEN "callHF"
    ELSE IF h = HandlerChunked THEN "callHuggingFace"
    ELSE "callHfRouter"

\* What one call of the client gives its caller: "text" is a string long
\* enough for every length test of the caller, "short" a non-empty string
\* too short for any of them, "" the empty string, "throw" an exception.
\* callHF can fall off its loop and return undefined; callHfRouter returns
\* JSON.stringify(undefined) for an empty array.
InvokeResults(c) ==
    {"text", "short", "", "throw"}
    \cup (IF c \in {"callHF", "callHfRouter"} THEN {"undefined"} ELSE {})

\* The length class of a returned value.
SizeOf(r) ==
    IF r = "text" THEN "long"
    ELSE IF r = "short" THEN "short"
    ELSE IF r = "" THEN "empty"
    ELSE "undefined"

\* Strategy 1 for every text, whatever its length.
AnyLength(a) == TRUE

\* if (text.length < 3000): the texts summarizeText sends to the model as
\* they are.
BelowDirectLimit(a) == a = "short"

\* A summarizeText that repeats the direct call until it gives a text.
RetryDirectCall(r) == IF r = "text" THEN "check" ELSE "direct"

\* return result if (result && result.length > 100); else, and after the
\* catch block, strategy 2 (src/api/summarize.js:160-174).
AfterDirectCall(r) == IF r = "text" THEN "check" ELSE "extractive"

\* summarizeText of src/api/summarize.js:158-169: the direct call, for
\* a short text only; its result counts when result.length > 100.
DirectCall ==
    /\ stage = "direct"
    /\ IF BelowDirectLimit(article)
       THEN /\ inferenceCalls' = inferenceCalls + 1
            /\ \E r \in InvokeResults(ClientOf(handler)) :
                  /\ summary' = IF r = "text"
                                THEN [from |-> "direct", size |-> "long"]
                                ELSE summary
                  /\ stage' = AfterDirectCall(r)
       ELSE /\ inferenceCalls' = inferenceCalls
            /\ summary' = summary
            /\ stage' = "extractive"
    /\ UNCHANGED <<asideVars, pureVars, clientVars, pageResult, deadlinePassed,
                   condenseResult>>
    /\ UNCHANGED <<chunkResults, handler, request,
                   article, chunkCount, chunkIdx,
                   summaries, subChunks, translations, pageFetches,
                   translationCalls, response>>

\* extractiveSummary(text, 20) of summarizeText (src/api/summarize.js:175),
\* extractiveSummary(cleaned, 15) of src/api/summarize.js:582.
Extractive ==
    /\ stage = "extractive"
    /\ \E z \in {"long", "short", "empty"} :
          summary' = [from |-> "extractive", size |-> z]
    /\ stage' = IF handler = HandlerHybrid THEN "refine" ELSE "check"
    /\ UNCHANGED <<asideVars, pureVars, clientVars, pageResult, deadlinePassed,
                   condenseResult>>
    /\ UNCHANGED <<chunkResults, handler, request,
                   article, chunkCount, chunkIdx,
                   summaries, subChunks, translations, pageFetches,
                   inferenceCalls, translationCalls, response>>

\* summarizeText of src/api/summarize.js:179-190: the refining call on the
\* extractive summary; else the extractive summary is returned.
Refine ==
    /\ stage = "refine"
    /\ inferenceCalls' = inferenceCalls + 1
    /\ \E r \in InvokeResults(ClientOf(handler)) :
          summary' = IF r = "text"
                     THEN [from |-> "refined", size |-> "long"]
                     ELSE summary
    /\ stage' = "check"
    /\ UNCHANGED <<asideVars, pureVars, clientVars, pageResult, deadlinePassed,
                   condenseResult>>
    /\ UNCHANGED <<chunkResults, handler, request,
                   article, chunkCount, chunkIdx,
                   summaries, subChunks, translations, pageFetches,
                   translationCalls, response>>

\* A handler of src/api/summarize.js:498 that computes the extractive
\* summary again after the test of the summary.
RepeatExtractive(h) == IF h = HandlerFast THEN "extractive" ELSE "translate"

\* A handler that went back to its summarizer after the test of the
\* summary.
BackToSummary(h) == FirstSummaryStage(h)

\* The step after the test of the summary: "5) Uebersetzen" follows
\* "4) Zusammenfassen" (src/api/summarize.js:321).
AfterSummaryCheck(h) == "translate"

\* if (!summary || summary.length < 30) return res.status(500)...
\* The partial summaries are locals of summarizeText, which has returned:
\* they are kept for the answer of this test and dropped after it.
CheckSummary ==
    /\ stage = "check"
    /\ IF summary.size # "long"
       THEN /\ Reply(500, "exhausted", "none")
            /\ UNCHANGED <<chunkResults, summaries>>
       ELSE /\ stage' = AfterSummaryCheck(handler)
            /\ response' = response
            /\ chunkResults' = <<>>
            /\ summaries' = <<>>
    /\ UNCHANGED <<asideVars, pureVars, clientVars, pageResult, deadlinePassed,
                   condenseResult>>
    /\ UNCHANGED <<handler, request, article, chunkCount, chunkIdx,
                   summary, subChunks, translations, pageFetches,
                   inferenceCalls, translationCalls>>

\* One pass of the loop over the chunks: the call of the client, and in the
\* catch block the first sentences of the chunk. summarizeText of part_002
\* pushes the result only if summary.length > 20; the handlers of part_000
\* and part_002:407 push String(s) whatever s is.
SummarizeChunk ==
    /\ stage = "chunks"
    /\ chunkIdx <= chunkCount
    /\ inferenceCalls' = inferenceCalls + 1
    /\ \E r \in InvokeResults(ClientOf(handler)), z \in {"long", "short"} :
        /\ chunkResults' = Append(chunkResults, r)
        /\ summaries' =
              IF r = "throw"
              THEN Append(summaries, [chunk |-> chunkIdx,
                                      from |-> "fallback", size |-> z])
              ELSE IF handler = HandlerChunked /\ r # "text"
              THEN summaries
              ELSE Append(summaries,
                          [chunk |-> chunkIdx, from |-> "model",
                           size |-> IF r = "undefined" THEN "short"
                                    ELSE SizeOf(r)])
    /\ chunkIdx' = chunkIdx + 1
    /\ UNCHANGED <<asideVars, pureVars, clientVars, pageResult, deadlinePassed,
                   condenseResult>>
    /\ UNCHANGED <<handler, request, stage, article, chunkCount, summary,
                   subChunks, translations, pageFetches, translationCalls,
                   response>>

\* The length classes the joined partial summaries can have.
JoinSizes(parts) ==
    LET full == {k \in 1..Len(parts) : parts[k].size # "empty"} IN
    IF \E k \in full : parts[k].size = "long" THEN {"long"}
    ELSE IF full = {} THEN {"empty"}
    ELSE IF Cardinality(full) = 1 THEN {"short"}
    ELSE {"short", "long"}

\* const combined = summaries.join(...). over says whether the joined text
\* is longer than the 4000 characters of src/unnamed/part_002:1000, which
\* only a text of the class "long" can be.
Join ==
    /\ stage = "chunks"
    /\ chunkIdx > chunkCount
    /\ \E z \in JoinSizes(summaries), b \in BOOLEAN :
          /\ b => z = "long"
          /\ summary' = [from |-> "joined", size |-> z, over |-> b]
    /\ stage' = "joined"
    /\ UNCHANGED <<asideVars, pureVars, clientVars, pageResult, deadlinePassed,
                   condenseResult>>
    /\ UNCHANGED <<chunkResults, handler, request,
                   article, chunkCount, chunkIdx,
                   summaries, subChunks, translations, pageFetches,
                   inferenceCalls, translationCalls, response>>

\* Whether the handler makes the condensing call for the joined text:
\* summarizeText of part_002 if combined.length > 4000 &&
\* summaries.length > 3, the handlers of part_000 and part_002:407 always.
Condenses(h, over, parts) ==
    h = HandlerChunked => over /\ parts > 3

\* What the handler carries forward when the condensing call gave r:
\* summarizeText of part_002 takes whatever the call returns and keeps the
\* joined text when it throws; the handlers of part_000 and part_002:407
\* fall back to the first 6 / 10 sentences of the joined text.
Condensed(h, joined, r, z) ==
    IF r = "throw"
    THEN IF h = HandlerChunked THEN joined
         ELSE [from |-> "truncated",
               size |-> IF joined.size = "long" THEN z ELSE "short"]
    ELSE [from |-> "condensed",
          size |-> IF r = "undefined" /\ h = HandlerRouterLang
                   THEN "empty" ELSE SizeOf(r)]

\* The condensing call. After it the partial summaries are not read
\* again: the model drops them when the translation stage begins.
Condense ==
    /\ stage = "joined"
    /\ Condenses(handler, summary.over, Len(summaries))
    /\ inferenceCalls' = inferenceCalls + 1
    /\ \E r \in InvokeResults(ClientOf(handler)), z \in {"long", "short"} :
          /\ condenseResult' = r
          /\ summary' = Condensed(handler, summary, r, z)
    /\ IF handler = HandlerChunked
       THEN stage' = "check" /\ UNCHANGED <<chunkResults, summaries>>
       ELSE /\ stage' = "translate"
            /\ chunkResults' = <<>>
            /\ summaries' = <<>>
    /\ UNCHANGED <<asideVars, pureVars, clientVars, pageResult, deadlinePassed>>
    /\ UNCHANGED <<handler, request, article, chunkCount, chunkIdx,
                   subChunks, translations, pageFetches,
                   translationCalls, response>>

\* summarizeText of part_002 when the joined text is not over 4000
\* characters or there are at most 3 partial summaries.
KeepJoined ==
    /\ stage = "joined"
    /\ ~Condenses(handler, summary.over, Len(summaries))
    /\ stage' = "check"
    /\ UNCHANGED <<asideVars, pureVars, clientVars, pageResult, deadlinePassed,
                   condenseResult>>
    /\ UNCHANGED <<chunkResults, handler, request,
                   article, chunkCount, chunkIdx,
                   summaries, summary, subChunks, translations, pageFetches,
                   inferenceCalls, translationCalls, response>>

Non2xx == {"warm", "busy503", "hard"}

\* What a handler with one direct inference request makes of its outcome;
\* parsable says whether the body of a non-2xx answer is JSON.
\*   model     the text of the body becomes the summary
\*   fallback  the first three sentences of the text become the summary
\*   second    the second model is asked (part_001:85)
\*   provider  500 "Ungueltige Antwort von Summarization API" (part_001:121)
\*   internal  an exception reaches the outer catch block: 500
\* part_000:253-288 and part_001:58-124 fetch without a try block and call
\* hfResponse.json() before they look at hfResponse.ok; part_002:644-697
\* does all of it inside a try block whose catch block falls back.
DirectVerdict(h, o, parsable) ==
    IF o \in {"ok", "okObject"} THEN "model"
    ELSE IF h = HandlerValidated THEN "fallback"
    ELSE IF o \in {"neterr", "badjson", "okNull"} THEN "internal"
    ELSE IF o \in Non2xx
    THEN IF ~parsable THEN "internal"
         ELSE IF h = HandlerFallbackModel THEN "second" ELSE "fallback"
    ELSE IF h = HandlerFallbackModel THEN "provider" ELSE "fallback"

\* 4) the summary by one request to the inference provider
DirectInference ==
    /\ stage = "inference"
    /\ inferenceCalls' = inferenceCalls + 1
    /\ \E o \in Outcomes, parsable \in BOOLEAN, z \in {"long", "short"} :
          LET v == DirectVerdict(handler, o, parsable) IN
          IF v = "internal"
          THEN Reply(500, "internal", "none") /\ summary' = summary
          ELSE IF v = "provider"
          THEN Reply(500, "provider", "none") /\ summary' = summary
          ELSE IF v = "second"
          THEN /\ stage' = "secondModel"
               /\ response' = response
               /\ summary' = summary
          ELSE /\ stage' = "translate"
               /\ response' = response
               /\ summary' = [from |-> v, size |-> z]
    /\ UNCHANGED <<asideVars, pureVars, clientVars, pageResult, deadlinePassed,
                   condenseResult>>
    /\ UNCHANGED <<chunkResults, handler, request,
                   article, chunkCount, chunkIdx,
                   summaries, subChunks, translations, pageFetches,
                   translationCalls>>

\* part_001:85-113: the second model, inside a try block; then the first
\* three sentences.
SecondModel ==
    /\ stage = "secondModel"
    /\ inferenceCalls' = inferenceCalls + 1
    /\ \E o \in Outcomes, z \in {"long", "short"} :
          summary' = [from |-> IF o = "ok" THEN "model" ELSE "fallback",
                      size |-> z]
    /\ stage' = "translate"
    /\ UNCHANGED <<asideVars, pureVars, clientVars, pageResult, deadlinePassed,
                   condenseResult>>
    /\ UNCHANGED <<chunkResults, handler, request,
                   article, chunkCount, chunkIdx,
                   summaries, subChunks, translations, pageFetches,
                   translationCalls, response>>

\* The handlers that translate only if language !== "en" (part_002:407:
\* langInfo.code !== "en").
LanguageChecking ==
    {HandlerHybrid, HandlerFast, HandlerRouterLang, HandlerChunked}

\* The handlers that translate by translateText: a model per language,
\* sub-chunks, LibreTranslate as fallback.
ModelTranslating == {HandlerHybrid, HandlerChunked}

\* What one request to LibreTranslate or MyMemory can come to: a 2xx body
\* with translatedText, a 2xx body without it, a non-2xx status, a network
\* error or timeout, a body that is no JSON.
TranslateOutcomes == {"translated", "noField", "non2xx", "neterr", "badjson"}

\* 5) language === "en": no translation
SkipTranslation ==
    /\ stage = "translate"
    /\ handler \in LanguageChecking
    /\ request.language = "en"
    /\ Reply(200, "success", "summary")
    /\ UNCHANGED <<asideVars, pureVars, clientVars, pageResult, deadlinePassed,
                   condenseResult>>
    /\ UNCHANGED <<chunkResults, handler, request,
                   article, chunkCount, chunkIdx,
                   summaries, summary, subChunks, translations, pageFetches,
                   inferenceCalls, translationCalls>>

\* translateText: const chunks = chunkText(text, 800)
StartSubChunks ==
    /\ stage = "translate"
    /\ handler \in ModelTranslating
    /\ request.language = "de"
    /\ subChunks' \in 1..MaxSubChunks
    /\ chunkIdx' = 1
    /\ stage' = "subChunks"
    /\ UNCHANGED <<asideVars, pureVars, clientVars, pageResult, deadlinePassed,
                   condenseResult>>
    /\ UNCHANGED <<chunkResults, handler, request,
                   article, chunkCount, summaries,
                   summary, translations, pageFetches, inferenceCalls,
                   translationCalls, response>>

\* if (result) of translateText: the values of callHF that are pushed as
\* the translation of the sub-chunk.
Truthy == {"text", "short"}

\* What translateText pushes for a sub-chunk, without the generic
\* fallback: the model's text, else the sub-chunk.
SegmentOutputWithoutLibre(r, g) ==
    IF r \in Truthy THEN "model" ELSE "original"

\* What translateText pushes for a sub-chunk when callHF gave r and
\* LibreTranslate came to g: the model's text; else what translateLibre
\* returns, data.translatedText || text.
SegmentOutput(r, g) ==
    IF r \in Truthy THEN "model"
    ELSE IF g = "translated" THEN "libre"
    ELSE "original"

\* A loop that pushes a segment only if some provider translated it.
PushSegmentIfTranslated(segs, seg) ==
    IF seg.out = "original" THEN segs ELSE Append(segs, seg)

\* translated.push(result), translated.push(libre): every branch of the
\* loop body pushes once.
PushSegment(segs, seg) == Append(segs, seg)

\* One pass of the loop of translateText: the model; if it throws or gives
\* nothing, LibreTranslate; if that fails, the sub-chunk itself.
TranslateSubChunk ==
    /\ stage = "subChunks"
    /\ chunkIdx <= subChunks
    /\ inferenceCalls' = inferenceCalls + 1
    /\ \E r \in InvokeResults(ClientOf(handler)) :
          IF r \in Truthy
          THEN /\ translations' =
                      PushSegment(translations,
                             [chunk |-> chunkIdx, lm |-> r,
                              generic |-> "notCalled",
                              out |-> SegmentOutput(r, "notCalled")])
               /\ translationCalls' = translationCalls
          ELSE /\ translationCalls' = translationCalls + 1
               /\ \E g \in TranslateOutcomes :
                     translations' =
                         PushSegment(translations,
                                [chunk |-> chunkIdx, lm |-> r, generic |-> g,
                                 out |-> SegmentOutput(r, g)])
    /\ chunkIdx' = chunkIdx + 1
    /\ UNCHANGED <<asideVars, pureVars, clientVars, pageResult, deadlinePassed,
                   condenseResult>>
    /\ UNCHANGED <<chunkResults, handler, request,
                   stage, article, chunkCount, summaries,
                   summary, subChunks, pageFetches, response>>

\* return translated.join(" "), and the response
FinishTranslate ==
    /\ stage = "subChunks"
    /\ chunkIdx > subChunks
    /\ Reply(200, "success", "segments")
    /\ UNCHANGED <<asideVars, pureVars, clientVars, pageResult, deadlinePassed,
                   condenseResult>>
    /\ UNCHANGED <<chunkResults, handler, request,
                   article, chunkCount, chunkIdx,
                   summaries, summary, subChunks, translations, pageFetches,
                   inferenceCalls, translationCalls>>

\* One request to LibreTranslate for the whole summary: translateText
\* without a model for the language, translateWithLibre, and the handlers
\* that call LibreTranslate themselves. All of them keep the summary when
\* it fails; the handlers with a direct inference request try MyMemory
\* first.
TranslateLibre ==
    /\ stage = "translate"
    /\ handler \in LanguageChecking => request.language # "en"
    /\ handler \in ModelTranslating => request.language # "de"
    /\ translationCalls' = translationCalls + 1
    /\ \E g \in TranslateOutcomes :
          IF g = "translated" THEN Reply(200, "success", "libre")
          ELSE IF handler \in DirectHandlers
          THEN stage' = "myMemory" /\ response' = response
          ELSE Reply(200, "success", "summary")
    /\ UNCHANGED <<asideVars, pureVars, clientVars, pageResult, deadlinePassed,
                   condenseResult>>
    /\ UNCHANGED <<chunkResults, handler, request,
                   article, chunkCount, chunkIdx,
                   summaries, summary, subChunks, translations, pageFetches,
                   inferenceCalls>>

\* The second translation provider, then the summary as it is.
TranslateMyMemory ==
    /\ stage = "myMemory"
    /\ translationCalls' = translationCalls + 1
    /\ \E g \in TranslateOutcomes :
          IF g = "translated" THEN Reply(200, "success", "mymemory")
          ELSE Reply(200, "success", "summary")
    /\ UNCHANGED <<asideVars, pureVars, clientVars, pageResult, deadlinePassed,
                   condenseResult>>
    /\ UNCHANGED <<chunkResults, handler, request,
                   article, chunkCount, chunkIdx,
                   summaries, summary, subChunks, translations, pageFetches,
                   inferenceCalls>>

\* The wall clock: the overall deadline of the request passes while the
\* chunk loop runs. No handler reads a clock for anything but its log
\* lines (src/api/summarize.js:513, :556), so no other variable changes.
DeadlinePasses ==
    /\ stage = "chunks"
    /\ ~deadlinePassed
    /\ deadlinePassed' = TRUE
    /\ UNCHANGED <<asideVars, pureVars, clientVars, pageResult, condenseResult>>
    /\ UNCHANGED <<chunkResults, handler, request, stage, article,
                   chunkCount, chunkIdx, summaries, summary, subChunks,
                   translations, pageFetches, inferenceCalls,
                   translationCalls, response>>

NextHandler ==
    \/ Validate \/ FetchPage \/ Extract \/ DeadlinePasses
    \/ DirectCall \/ Extractive \/ Refine \/ CheckSummary
    \/ SummarizeChunk \/ Join \/ Condense \/ KeepJoined
    \/ DirectInference \/ SecondModel
    \/ SkipTranslation \/ StartSubChunks \/ TranslateSubChunk
    \/ FinishTranslate \/ TranslateLibre \/ TranslateMyMemory

SpecHandler == InitHandler /\ [][NextHandler]_vars

(***************************************************************************)
(* Claims about the request handlers.                                      *)
(***************************************************************************)

\* The chunks whose inference call has failed so far.
FailedChunks == {i \in 1..Len(chunkResults) : chunkResults[i] = "throw"}

\* The request has been answered, and the answer is an error.
AnsweredWithError ==
    /\ response # <<>>
    /\ response[1].kind # "success"

\* C14: in every chunking handler, a chunk whose inference call failed has
\* the leading sentences of that chunk as its partial summary, the loop has
\* moved on to the next chunk, and no request in which a chunk's call
\* failed is answered with an error.
C14_ChunkFailureNeverAnError ==
    handler \in ChunkingHandlers =>
        \A i \in FailedChunks :
            /\ \E k \in 1..Len(summaries) :
                  /\ summaries[k].chunk = i
                  /\ summaries[k].from = "fallback"
            /\ chunkIdx > i
            /\ ~AnsweredWithError

\* The request has been answered with the 200 response.
AnsweredWithSuccess ==
    /\ response # <<>>
    /\ response[1].kind = "success"

\* C15: a request for language "en", the language of the source, makes no
\* call to a translation provider, and the summary field of its 200
\* response is the summary as the summarizer gave it.
C15_SameLanguageNoTranslation ==
    request.language = "en" =>
        /\ translationCalls = 0
        /\ AnsweredWithSuccess => response[1].summary = "summary"

\* C16: translateText gives for every sub-chunk the text of the language
\* model when that call returned a non-empty text (and then asks no other
\* provider), otherwise the text of the generic provider when that request
\* brought a translation, otherwise the sub-chunk as it was; and a request
\* that has asked for a translation is never answered with an error.
C16_TranslationFallbackChain ==
    /\ \A k \in 1..Len(translations) :
          LET t == translations[k] IN
          /\ t.lm \in Truthy => t.out = "model" /\ t.generic = "notCalled"
          /\ t.lm \notin Truthy /\ t.generic = "translated"
                => t.out = "libre"
          /\ t.lm \notin Truthy /\ t.generic # "translated"
                => t.out = "original" /\ t.generic \in TranslateOutcomes
    /\ translations # <<>> \/ translationCalls > 0 => ~AnsweredWithError
    /\ stage = "done" /\ translations # <<>>
          => AnsweredWithSuccess /\ Len(translations) = subChunks

\* C16, its case: a request answered after translateText took one
\* sub-chunk from the model and one from the generic provider, whose model
\* call had failed.
C16_Witness ==
    /\ AnsweredWithSuccess
    /\ response[1].summary = "segments"
    /\ \E j, k \in 1..Len(translations) :
          /\ translations[j].out = "model"
          /\ translations[k].out = "libre"
          /\ translations[k].lm = "throw"

\* C16, its last case: a request answered although neither the model nor
\* the generic provider translated a sub-chunk.
C16_WitnessUntranslated ==
    /\ AnsweredWithSuccess
    /\ \E k \in 1..Len(translations) :
          /\ translations[k].out = "original"
          /\ translations[k].generic \in {"non2xx", "neterr"}

\* C17: once a request has called an inference or translation provider,
\* the only error it can be answered with is the one of a summary that
\* stayed empty or too short after every fallback: no failure of a
\* provider is passed on to the caller.
C17_ProviderFailuresAbsorbed ==
    (inferenceCalls > 0 \/ translationCalls > 0) /\ AnsweredWithError
        => response[1].kind = "exhausted"

\* A request without url or language, or with one that is no string.
Malformed ==
    \/ request.url \in {"missing", "nonString"}
    \/ request.language \in {"missing", "nonString"}

\* No page was fetched and no provider was called.
PipelineNotEntered ==
    /\ pageFetches = 0
    /\ inferenceCalls = 0
    /\ translationCalls = 0

\* C18: for a request whose url or language is absent or no string, no
\* page is fetched and no inference or translation provider is called, and
\* its answer is the validation error.
C18_MalformedRejectedFirst ==
    Malformed =>
        /\ PipelineNotEntered
        /\ stage = "done" =>
              response # <<>> /\ response[1].kind = "validation"

\* C19: for a request whose url is a string with another scheme than http
\* or https, or a string that is no URL, the page fetcher is never called,
\* and its answer is the validation error.
C19_BadSchemeNeverFetched ==
    request.url \in {"ftp", "notAUrl"} =>
        /\ pageFetches = 0
        /\ stage = "done" =>
              response # <<>> /\ response[1].kind = "validation"

\* The page fetch failed: no answer, an answer that is not 2xx, a timeout.
FetchFailed == pageResult \in {"neterr", "non2xx", "timeout"}

\* C20: a request fetches the page at most once; when that fetch fails the
\* request is over, its one answer is the error of a failed fetch, the
\* article was not extracted and no inference or translation provider was
\* called.
C20_FetchOnceAndFailureSurfaced ==
    /\ pageFetches <= 1
    /\ FetchFailed =>
          /\ stage = "done"
          /\ Len(response) = 1
          /\ response[1].kind = "fetch"
          /\ article = "none"
          /\ inferenceCalls = 0
          /\ translationCalls = 0

\* C21: when the extractor returns null or an article with an empty
\* textContent, the request is over, its one answer is the extraction
\* error, and no inference or translation provider was called.
C21_NoArticleIsExtractionError ==
    article \in {"null", "emptyText"} =>
        /\ stage = "done"
        /\ Len(response) = 1
        /\ response[1].kind = "extraction"
        /\ response[1].status = 400
        /\ inferenceCalls = 0
        /\ translationCalls = 0

\* C21, its case: the page was fetched, the extractor came back with an
\* article without text, and the request was answered.
C21_Witness ==
    /\ article = "emptyText"
    /\ pageResult = "ok"
    /\ response # <<>>

\* C22: once the overall deadline has passed at a chunk boundary, the
\* orchestrator leaves the chunk loop without another inference call for a
\* remaining chunk, and it does not answer with an error.
C22_StopsAtDeadline ==
    [][deadlinePassed /\ stage = "chunks"
          => /\ stage' # "chunks"
             /\ inferenceCalls' = inferenceCalls
             /\ response' = response]_vars

(***************************************************************************)
(* Two invocations of the handler of src/api/summarize.js:262, interleaved *)
(* at their await points. Node runs each invocation without interruption   *)
(* from one await to the next. The module holds only constants (lines      *)
(* 5-23); everything a request computes is held in const and let           *)
(* variables of the invocation.                                            *)
(***************************************************************************)

Invocations == {1, 2}

\* The other invocation.
Other(i) == 3 - i

\* The body of a request and what the providers answer to its calls.
InvocationInputs ==
    [url : {"u1", "u2"}, language : {"en", "de"}, pageOk : BOOLEAN,
     hf : {"text", "throw"}, libre : {"translated", "neterr"}]

\* The frame of an invocation before its first statement.
EmptyFrame ==
    [url |-> "none", language |-> "none", html |-> "none",
     summary |-> "none"]

\* Where the const and let variables of src/api/summarize.js:273-326 would
\* live if they were declared at module level: one frame for all.
SharedFrame(i) == 1

\* Where invocation i keeps url, language, html, cleaned and summary: they
\* are declared inside handler (src/api/summarize.js:273-326), so every
\* invocation has a frame of its own.
Frame(i) == i

InitPair ==
    /\ PureIdle
    /\ ClientIdle
    /\ HandlerIdle
    /\ TimeoutIdle
    /\ invocations \in [Invocations -> InvocationInputs]
    /\ awaiting = [i \in Invocations |-> "start"]
    /\ frames = [i \in Invocations |-> EmptyFrame]
    /\ replies = [i \in Invocations |-> "none"]
    /\ interleaved = FALSE

\* The other invocation stands at an await.
InFlight(i) == awaiting[i] \in {"page", "summary", "translation"}

\* One run of invocation i from an await to the next.
Resume(i, next) ==
    /\ awaiting' = [awaiting EXCEPT ![i] = next]
    /\ interleaved' = (interleaved \/ InFlight(Other(i)))
    /\ UNCHANGED <<invocations, pureVars, clientVars, handlerVars,
                   timeoutVars>>

\* const { url, language } = body; await fetchWithTimeout(url)
PairBegin(i) ==
    /\ awaiting[i] = "start"
    /\ frames' = [frames EXCEPT ![Frame(i)].url = invocations[i].url,
                                ![Frame(i)].language =
                                    invocations[i].language]
    /\ replies' = replies
    /\ Resume(i, "page")

\* The page answers: 400 if it is not ok, else html = await pageRes.text(),
\* the extraction and cleaning, and await summarizeText(cleaned).
PairPage(i) ==
    /\ awaiting[i] = "page"
    /\ IF invocations[i].pageOk
       THEN /\ frames' = [frames EXCEPT ![Frame(i)].html =
                                            [of |-> invocations[i].url]]
            /\ replies' = replies
            /\ Resume(i, "summary")
       ELSE /\ replies' = [replies EXCEPT ![i] =
                              [status |-> 400, of |-> "none",
                               by |-> "none", translated |-> FALSE,
                               language |-> "none"]]
            /\ frames' = frames
            /\ Resume(i, "done")

\* summarizeText returns: the text of the model, or the extractive
\* summary of the cleaned text; then await translateText(summary,
\* language), which for "en" returns at once.
PairSummary(i) ==
    /\ awaiting[i] = "summary"
    /\ frames' = [frames EXCEPT ![Frame(i)].summary =
                      [of |-> frames[Frame(i)].html.of,
                       by |-> IF invocations[i].hf = "text"
                              THEN "model" ELSE "extractive"]]
    /\ replies' = replies
    /\ Resume(i, "translation")

\* translateText returns, and the handler answers with 200.
PairTranslation(i) ==
    /\ awaiting[i] = "translation"
    /\ replies' = [replies EXCEPT ![i] =
                      LET f == frames[Frame(i)] IN
                      [status |-> 200, of |-> f.summary.of,
                       by |-> f.summary.by,
                       translated |-> /\ f.language # "en"
                                      /\ invocations[i].libre = "translated",
                       language |-> f.language]]
    /\ frames' = frames
    /\ Resume(i, "done")

NextPair ==
    \E i \in Invocations :
        \/ PairBegin(i)
        \/ PairPage(i)
        \/ PairSummary(i)
        \/ PairTranslation(i)

SpecPair == InitPair /\ [][NextPair]_vars

\* What the handler answers to a request that runs alone.
Alone(inp) ==
    IF ~inp.pageOk
    THEN [status |-> 400, of |-> "none", by |-> "none",
          translated |-> FALSE, language |-> "none"]
    ELSE [status |-> 200, of |-> inp.url,
          by |-> IF inp.hf = "text" THEN "model" ELSE "extractive",
          translated |-> inp.language # "en" /\ inp.libre = "translated",
          language |-> inp.language]

\* C23: of two invocations interleaved at their await points each one
\* answers what it answers when it runs alone against the same provider
\* answers, and until it has begun its frame holds nothing of the other.
C23_RequestsIndependent ==
    invocations # <<>> =>
        \A i \in Invocations :
            /\ awaiting[i] = "done" => replies[i] = Alone(invocations[i])
            /\ awaiting[i] = "start" => frames[i] = EmptyFrame
            /\ awaiting[i] # "done" => replies[i] = "none"

\* C23, its case: both invocations have answered, their steps were
\* interleaved, and they had different bodies and both reached the
\* summarizer.
C23_Witness ==
    /\ invocations # <<>>
    /\ interleaved
    /\ \A i \in Invocations : awaiting[i] = "done" /\ replies[i].status = 200
    /\ invocations[1].url # invocations[2].url
    /\ invocations[1].language # invocations[2].language

(***************************************************************************)
(* The timeout wrappers: one network call, the timer of its wrapper, and   *)
(* the code that awaits it, against a clock.                               *)
(*   "abortController"  fetchWithTimeout of src/api/summarize.js:62-73     *)
(*   "promiseRace"      fetchWithTimeout of src/unnamed/part_002:533-540   *)
(*   "inlineAbort"      translateWithLibre of src/api/summarize.js:436-477 *)
(***************************************************************************)

MaxTimeout == 3

MaxClock == 5

Wrappers == {"abortController", "promiseRace", "inlineAbort"}

\* The wrappers whose timer aborts the fetch.
Aborting == {"abortController", "inlineAbort"}

\* Whether the wrapper clears its timer when the fetch rejects:
\* clearTimeout(id) in the catch block of src/api/summarize.js:69-72;
\* the catch block of translateWithLibre and Promise.race have none.
ClearsOnFailure(w) == w = "abortController"

InitTimeout ==
    /\ PureIdle
    /\ ClientIdle
    /\ HandlerIdle
    /\ PairIdle
    /\ wrapper \in Wrappers
    /\ timeoutMs \in 1..MaxTimeout
    /\ clock = 0
    /\ netCall = "connecting"
    /\ timer = "armed"
    /\ caller = "awaitingFetch"

TimeoutElsewhere == UNCHANGED <<pureVars, clientVars, handlerVars, pairVars>>

\* Time passes; an armed timer fires when its time has come.
Tick ==
    /\ clock < MaxClock
    /\ timer = "armed" => clock < timeoutMs
    /\ clock' = clock + 1
    /\ UNCHANGED <<wrapper, timeoutMs, netCall, timer, caller>>
    /\ TimeoutElsewhere

\* fetch resolves with the response: the status line and the headers are
\* there, the body is not. src/api/summarize.js:66-68 clears the timer
\* and returns; Promise.race settles and leaves its timer running.
HeadersArrive ==
    /\ netCall = "connecting"
    /\ netCall' = "readingBody"
    /\ timer' = IF wrapper \in Aborting /\ timer = "armed"
                THEN "cleared" ELSE timer
    /\ caller' = IF caller = "awaitingFetch" THEN "awaitingBody" ELSE caller
    /\ UNCHANGED <<wrapper, timeoutMs, clock>>
    /\ TimeoutElsewhere

\* fetch rejects by itself: a network error. The code that awaits it
\* lands in its catch block.
FetchFails ==
    /\ netCall = "connecting"
    /\ netCall' = "failed"
    /\ timer' = IF ClearsOnFailure(wrapper) /\ timer = "armed"
                THEN "cleared" ELSE timer
    /\ caller' = IF caller = "awaitingFetch" THEN "rejected" ELSE caller
    /\ UNCHANGED <<wrapper, timeoutMs, clock>>
    /\ TimeoutElsewhere

\* await response.json() / pageRes.text() resolves.
BodyArrives ==
    /\ netCall = "readingBody"
    /\ netCall' = "complete"
    /\ caller' = IF caller = "awaitingBody" THEN "resumed" ELSE caller
    /\ UNCHANGED <<wrapper, timeoutMs, clock, timer>>
    /\ TimeoutElsewhere

\* The callback of setTimeout runs: controller.abort() ends the call and
\* rejects the fetch; the timer of Promise.race rejects the race, which
\* has an effect only while the race is unsettled, and leaves the fetch
\* alone.
TimerFires ==
    /\ timer = "armed"
    /\ clock = timeoutMs
    /\ timer' = "fired"
    /\ netCall' = IF wrapper \in Aborting /\ netCall = "connecting"
                  THEN "aborted" ELSE netCall
    /\ caller' = IF caller = "awaitingFetch" THEN "rejected" ELSE caller
    /\ UNCHANGED <<wrapper, timeoutMs, clock>>
    /\ TimeoutElsewhere

NextTimeout ==
    Tick \/ HeadersArrive \/ FetchFails \/ BodyArrives \/ TimerFires

SpecTimeout == InitTimeout /\ [][NextTimeout]_vars

\* The call is in flight.
InFlightCall == netCall \in {"connecting", "readingBody"}

\* The code that awaits the call is blocked.
Blocked == caller \in {"awaitingFetch", "awaitingBody"}

\* C24: past its timeout no network call is in flight, the reading of the
\* response body included, and the code that awaits it is not blocked.
C24_NothingInFlightPastTimeout ==
    wrapper \in Wrappers /\ clock > timeoutMs =>
        /\ ~InFlightCall
        /\ ~Blocked

\* The joined text is over the re-condensation threshold and was joined
\* from more than one partial summary.
WorthCondensing == summary.over /\ Len(summaries) > 1

\* C25: after the partial summaries are joined, the step that follows
\* makes one condensing inference call when the joined text is over the
\* threshold and there is more than one partial summary, and no inference
\* call otherwise.
C25_CondenseOnlyWhenWorthIt ==
    [][stage = "joined"
          => inferenceCalls' =
                inferenceCalls + (IF WorthCondensing THEN 1 ELSE 0)]_vars

\* C26: when the condensing call fails, the summary carried forward is the
\* joined text as it was.
C26_FailedCondenseKeepsJoined ==
    [][stage = "joined" /\ condenseResult' = "throw"
          => summary' = summary]_vars

\* C27: summarizeText of src/api/summarize.js makes the direct call only
\* for a text under the limit. For a longer text no call is made before
\* the extractive summary exists, the one call that is made is the
\* refining call on it, and what summarizeText returns is the refined or
\* the extractive summary.
C27_DirectOnlyForShortText ==
    handler = HandlerHybrid =>
        /\ summary.from = "direct" => article = "short"
        /\ article = "long" /\ stage \in {"direct", "extractive", "refine"}
              => inferenceCalls = 0
        /\ article = "long" /\ stage = "check"
              => /\ inferenceCalls = 1
                 /\ summary.from \in {"extractive", "refined"}
        /\ article = "short" /\ stage = "check"
              => IF summary.from = "direct" THEN inferenceCalls = 1
                 ELSE inferenceCalls = 2

\* C27, its case: summarizeText has returned the refined extractive
\* summary of a long text after one call.
C27_Witness ==
    /\ handler = HandlerHybrid
    /\ article = "long"
    /\ stage = "check"
    /\ summary.from = "refined"
    /\ inferenceCalls = 1

\* C28: in no request is the text handed to the chunker or summarizer
\* longer than the article limit.
C28_TruncatedBeforeSummarizing == article # "overLimit"

\* C29: for every text and bound, the number of chunks splitIntoChunks
\* returns times the bound is at least the length of the text.
C29_ChunksCanHoldText ==
    op \in {"splitIntoChunks", "splitIntoChunks2"} =>
        Len(out) * param >= Len(text)

\* The summarization stage has ended with a final summary, and the request
\* has been answered.
AnsweredAfterSummary ==
    /\ response # <<>>
    /\ summary.from # "none"

\* The final summary is empty or shorter than the minimum length.
SummaryTooShort == summary.size # "long"

\* C30: the request is answered with the error of the summarization stage
\* exactly when the final summary is empty or shorter than the minimum
\* length, and then without a translation call; in every other case it
\* goes on to the translation stage and is answered with success.
C30_ErrorIffSummaryTooShort ==
    AnsweredAfterSummary =>
        /\ response[1].kind = "exhausted" <=> SummaryTooShort
        /\ SummaryTooShort => translationCalls = 0
        /\ ~SummaryTooShort => response[1].kind = "success"

\* The position of a stage in the pipeline: validation, page fetch,
\* extraction with cleaning and truncation, the summarizer, the test of its
\* summary, translation, the response.
StageRank(st) ==
    CASE st \in {"idle", "validate"} -> 1
      [] st = "fetchPage" -> 2
      [] st = "extract" -> 3
      [] st \in {"direct", "extractive", "refine", "chunks", "joined",
                 "inference", "secondModel"} -> 4
      [] st = "check" -> 5
      [] st \in {"translate", "subChunks", "myMemory"} -> 6
      [] st = "done" -> 7

\* C31: the stages of a request run forward only: no step leads to an
\* earlier stage, the summarizer starts on an extracted and cleaned
\* article, and a call of the summarizer is made before any translation
\* call or translated segment exists.
C31_StagesRunForward ==
    [][/\ StageRank(stage') >= StageRank(stage)
       /\ StageRank(stage') \in {4, 5} =>
              /\ article' \in {"short", "long", "overLimit"}
              /\ translationCalls' = 0
              /\ translations' = <<>>
       /\ StageRank(stage) >= 6 => summary' = summary]_vars

\* C31 witness: a request that went through every stage: summarized by
\* the provider, translated, answered with success.
C31_Witness ==
    /\ stage = "done"
    /\ response # <<>>
    /\ response[1].kind = "success"
    /\ inferenceCalls > 0
    /\ translationCalls > 0

\* C32: one invocation of the inference client issues at most maxRetries
\* HTTP calls, whatever the provider answers.
C32_AtMostMaxRetriesCalls == calls <= maxRetries

\* C32 witness: a client that ended after maxRetries = 3 calls which met
\* a warm-up answer, a thrown failure and a hard status.
C32_Witness ==
    /\ pc = "threw"
    /\ maxRetries = 3
    /\ calls = 3
    /\ Len(answers) = 3
    /\ answers[3] = "hard"
    /\ \E m, n \in 1..2 :
          /\ Branch(client, answers[m]) = "warmup"
          /\ answers[n] \in {"neterr", "badjson"}

\* C39: the inference client never waits after its final attempt: no wait
\* begins once attempt number maxRetries has failed or got the warm-up
\* status.
C39_NoWaitAfterFinalAttempt ==
    pc = "sleep" => attempt < maxRetries - 1

\* C33: after the chunk loop of summarizeText (part_002) there is exactly
\* one partial summary per chunk, in chunk order, whatever each inference
\* call returned or raised.
C33_OnePartialSummaryPerChunk ==
    (handler = HandlerChunked /\ stage = "joined") =>
        /\ Len(summaries) = chunkCount
        /\ \A k \in 1..Len(summaries) : summaries[k].chunk = k

\* C34: the condensing step of summarizeText (part_002) never loses the
\* summary: a non-empty joined text leaves a non-empty summary, whatever
\* the condensing call returns.
C34_CondensingKeepsSummary ==
    [][(handler = HandlerChunked /\ stage = "joined"
          /\ summary.size # "empty")
       => summary'.size # "empty"]_vars

\* C35: translateText with a model emits one output segment per
\* sub-chunk, in sub-chunk order: while the loop runs there is one segment
\* for each sub-chunk done, segment k made from sub-chunk k, and the
\* joined result has as many segments as there are sub-chunks.
C35_OneSegmentPerSubChunk ==
    handler \in ModelTranslating =>
        /\ \A k \in 1..Len(translations) : translations[k].chunk = k
        /\ stage = "subChunks" => Len(translations) = chunkIdx - 1
        /\ (stage = "done" /\ response[1].summary = "segments") =>
              Len(translations) = subChunks

\* C35 witness: a joined result of two segments, the first by the model,
\* the second the sub-chunk itself after both providers failed.
C35_Witness ==
    /\ handler \in ModelTranslating
    /\ stage = "done"
    /\ response[1].summary = "segments"
    /\ subChunks = 2
    /\ Len(translations) = 2
    /\ translations[1].out = "model"
    /\ translations[2].out = "original"

\* The steps of summarizeText of src/api/summarize.js.
SummarizeTextStages == {"direct", "extractive", "refine"}

\* C36: summarizeText of src/api/summarize.js never raises and invokes
\* the inference client at most twice: every step of it leads to another
\* step of it or to its return, without a response, and the number of
\* invocations stays at most two.
C36_SummarizeTextTotalTwoCalls ==
    [][(handler = HandlerHybrid /\ stage \in SummarizeTextStages) =>
          /\ stage' \in SummarizeTextStages \cup {"check"}
          /\ response' = response
          /\ inferenceCalls' <= 2]_vars

\* C36 witness: summarizeText has returned the extractive summary after
\* the direct call and the refining call both failed.
C36_Witness ==
    /\ handler = HandlerHybrid
    /\ stage = "check"
    /\ inferenceCalls = 2
    /\ summary.from = "extractive"

\* C37: every invocation of a handler sends exactly one response: none
\* while it runs, in which it can always take a step, one when it has
\* ended, and after the response no page fetch, provider call or second
\* response.
C37_ExactlyOneResponse ==
    /\ Len(response) = (IF stage = "done" THEN 1 ELSE 0)
    /\ stage \notin {"idle", "done"} => ENABLED NextHandler
    /\ stage = "done" => ~ENABLED NextHandler

\* C37 witness: a request answered with an error after provider calls
\* were made, and one answered with success after a translation call.
C37_Witness ==
    /\ stage = "done"
    /\ Len(response) = 1
    /\ \/ response[1].status = 500 /\ inferenceCalls > 0
       \/ response[1].status = 200 /\ translationCalls > 0

---------------------------------------------------------------------------
(* Termination: one invocation of the inference client, or one request,   *)
(* run to its end. Every await is of a network call that settles or times *)
(* out (fetchWithTimeout) or of a timer, so a step that can be taken is    *)
(* taken in the end: weak fairness of the client and of the handler.      *)

InitLive == InitClient \/ InitHandler

NextLive == NextClient \/ NextHandler

SpecLive ==
    /\ InitLive
    /\ [][NextLive]_vars
    /\ WF_vars(NextClient)
    /\ WF_vars(NextHandler)

\* C38: every request comes to a response, and every invocation of the
\* inference client returns or throws: the retry loop, the chunk loops and
\* the sub-chunk loop all end.
C38_EventuallyTerminal == <>(stage = "done" \/ Terminated)

\* C38 witness: a request answered after the chunk loop ran over
\* MaxChunks chunks, and a client that ended after MaxRetries attempts.
C38_Witness ==
    \/ stage = "done" /\ chunkCount = MaxChunks /\ inferenceCalls >= MaxChunks
    \/ Terminated /\ calls = MaxRetries

\* The wrapped fetch has settled: resolved with a response, or rejected.
FetchSettled == netCall \in {"readingBody", "complete", "failed", "aborted"}

\* C40: every timer a timeout wrapper armed is cancelled once the wrapped
\* fetch settles, where it resolves and where it rejects: no timer is
\* armed, and none has fired, after the fetch settled by itself.
C40_TimerCancelledOnSettle ==
    (wrapper \in Wrappers /\ FetchSettled) =>
        /\ timer # "armed"
        /\ timer = "fired" => netCall = "aborted" \/ caller = "rejected"

=============================================================================
